---- MODULE Spec2Model ----
(***************************************************************************)
(* memmer: the monthly-fee / discount engine (queries/fees.py), the        *)
(* relatedness index (queries/relations.py) and the tally assembly        *)
(* (queries/tally.py, queries/maintenance.py) over the ORM tables.         *)
(*                                                                         *)
(* Decimal amounts are exact; they are held as integers counting 1/800 of  *)
(* a currency unit (an eighth of a cent): amounts of whole cents stay      *)
(* integers under the factors 0.75 and 0.5 of the fee computation.         *)
(* Dates are <<year, month, day>>; a NULL date column is NoDate.           *)
(* The tables are seen through one open ORM session, which keeps the       *)
(* one_time_fees collections it has loaded until it is committed.          *)
(***************************************************************************)
EXTENDS Integers, Sequences, FiniteSets, Bags, TLC

VARIABLES
    members,                \* table members: id -> row
    sessions,               \* table sessions: id -> membership_fee
    participations,         \* table participations: rows in insertion order
    trainers,               \* table trainers: set of <<member_id, session_id>>
    relations,              \* table relations: rows <<first_id, second_id>> in insertion order
    fixedcosts,             \* table fixedcosts: name -> cost
    feeoverrides,           \* table feeoverrides: member_id -> amount (partial)
    onetimecosts,           \* table onetimecosts: rows in insertion order
    archived_onetimecosts,  \* table archived_onetimecosts: rows in insertion order
    tallies,                \* table tallies: rows in insertion order
    session_deleted,        \* the open session: OneTimeFee objects it has deleted and
                            \* that their member's loaded one_time_fees still holds
    now,                    \* datetime.now(), in whole seconds
    output_dir,             \* the output directory: file name -> contents
    output_dir_exists,      \* whether the output directory can be written to
    ret                     \* the last call and what it returned

db == <<members, sessions, participations, trainers, relations, fixedcosts,
        feeoverrides, onetimecosts, archived_onetimecosts, tallies>>

env == <<session_deleted, now, output_dir, output_dir_exists>>

vars == <<db, env, ret>>

---------------------------------------------------------------------------
(* Bounds of the model *)

NumMembers == 3
NumSessions == 3
NumDays == 3
MaxOneTimeFees == 2
FamilySize == 5
MaxTallies == 2
MaxClock == 1
MaxArchived == 3
NumRelated == 4
HouseholdSize == 4
MaxDepth == 4
MaxMemberRows == 2
MaxRelations == 5

---------------------------------------------------------------------------
(* Values *)

Range(s) == {s[i] : i \in DOMAIN s}

\* Decimal("<whole>.<cents>")
Decimal(whole, cents) == 800 * whole + 8 * cents

\* The product of two Decimals.
DecMul(a, b) == (a * b) \div 800

NoDate == <<0, 0, 0>>

\* datetime.date ordering
DateLT(a, b) ==
    \/ a[1] < b[1]
    \/ a[1] = b[1] /\ a[2] < b[2]
    \/ a[1] = b[1] /\ a[2] = b[2] /\ a[3] < b[3]

DateLE(a, b) == a = b \/ DateLT(a, b)

\* A list held as a tuple of its elements (and no longer as the rule that makes them).
List(f) == f \o <<>>

\* the order of the keys of sorted(): tuples of two numbers, compared in turn
KeyLT(a, b) == a[1] < b[1] \/ (a[1] = b[1] /\ a[2] < b[2])

\* sorted(seq, key=..., reverse=...), with keys[i] the key of seq[i]: elements
\* with equal keys keep their order, also when reverse is set
sorted(seq, keys, reverse) ==
    LET s == List(seq)
        k == List(keys)
        n == Len(s)
        rank == List([i \in 1..n |->
                    1 + Cardinality({j \in 1..n : IF reverse THEN KeyLT(k[i], k[j])
                                                            ELSE KeyLT(k[j], k[i])})
                      + Cardinality({j \in 1..n : j < i /\ k[j] = k[i]})])
    IN List([p \in 1..n |-> s[CHOOSE i \in 1..n : rank[i] = p]])

\* order_by(id.asc()) over a set of ids
Ascending(S) ==
    List([i \in 1..Cardinality(S) |->
             CHOOSE x \in S : Cardinality({y \in S : y < x}) = i - 1])

---------------------------------------------------------------------------
(* utils/time.py, utils/active.py *)

\* nominal_year_diff that takes the year off on the day itself as well
nominal_year_diff_day_inclusive(first, second) ==
    LET years == second[1] - first[1]
    IN IF second[2] < first[2] THEN years - 1
       ELSE IF second[2] = first[2] /\ second[3] <= first[3] THEN years - 1
       ELSE years

nominal_year_diff(first, second) ==
    LET years == second[1] - first[1]
    IN IF second[2] < first[2] THEN years - 1
       ELSE IF second[2] = first[2] /\ second[3] < first[3] THEN years - 1
       ELSE years

is_active(member, target_date) ==
    IF DateLT(target_date, members[member].entry_date) THEN FALSE
    ELSE IF members[member].exit_date = NoDate THEN TRUE
    ELSE DateLT(target_date, members[member].exit_date)

---------------------------------------------------------------------------
(* queries/relations.py *)

are_related(rows, first, second) ==
    \E i \in DOMAIN rows :
        \/ rows[i][1] = first /\ rows[i][2] = second
        \/ rows[i][2] = first /\ rows[i][1] = second

RECURSIVE relatedMembers(_, _, _)
relatedMembers(rows, member, acc) ==
    IF rows = <<>> THEN acc
    ELSE LET first == Head(rows)[1]
             second == Head(rows)[2]
             acc1 == IF member # first /\ first \notin Range(acc)
                     THEN Append(acc, first) ELSE acc
             acc2 == IF member # second /\ second \notin Range(acc1)
                     THEN Append(acc1, second) ELSE acc1
         IN relatedMembers(Tail(rows), member, acc2)

get_relatives(rows, member) ==
    relatedMembers(SelectSeq(rows, LAMBDA r : r[1] = member \/ r[2] = member),
                   member, <<>>)

make_relation(rows, first, second) ==
    IF ~are_related(rows, first, second)
    THEN LET first_relatives == get_relatives(rows, first)
             second_relatives == get_relatives(rows, second)
         IN rows
            \o [i \in 1..Len(first_relatives) |-> <<first_relatives[i], second>>]
            \o [i \in 1..Len(second_relatives) |-> <<second_relatives[i], first>>]
            \o << <<first, second>> >>
    ELSE rows

\* deletes the first row that joins the two members, in either direction
drop_relation(rows, first, second) ==
    LET matching == {i \in DOMAIN rows :
                        \/ rows[i][1] = first /\ rows[i][2] = second
                        \/ rows[i][2] = first /\ rows[i][1] = second}
    IN IF matching # {}
       THEN LET relation == CHOOSE i \in matching : \A j \in matching : i <= j
            IN SubSeq(rows, 1, relation - 1) \o SubSeq(rows, relation + 1, Len(rows))
       ELSE rows

clear_relations(rows, member) ==
    SelectSeq(rows, LAMBDA r : ~(r[1] = member \/ r[2] = member))

RECURSIVE make_relations(_, _, _)
\* the loop of set_relatives
make_relations(rows, member, relatives) ==
    IF relatives = <<>> THEN rows
    ELSE make_relations(make_relation(rows, member, Head(relatives)), member, Tail(relatives))

\* set_relatives that only clears
set_relatives_cleared(rows, member, relatives) == clear_relations(rows, member)

set_relatives(rows, member, relatives) ==
    make_relations(clear_relations(rows, member), member, relatives)

---------------------------------------------------------------------------
(* queries/fixed_costs.py *)

BasicFeeAdultsKey == "basic_fee_adults"
BasicFeeYouthsKey == "basic_fee_youths"
BasicFeeTrainersKey == "basic_fee_trainers"

\* no key: nothing was raised
NoKey == ""

\* fixed_cost is None: RuntimeError("No fixed cost known with key '...'")
get_fixed_cost_raises(key) == key \notin DOMAIN fixedcosts

\* fixed_cost.cost, when the row is there
get_fixed_cost(key) == fixedcosts[key]

---------------------------------------------------------------------------
(* queries/fees.py *)

AdultAge == 18

\* member.participating_sessions joined with the member's Participation rows
member_participations(member) ==
    SelectSeq(participations, LAMBDA p : p.member_id = member)

\* session_fees that still counts a participation on the day it ends
session_fees_until_inclusive(member, target_date) ==
    LET active == SelectSeq(member_participations(member),
                     LAMBDA p : /\ DateLE(p.since, target_date)
                                /\ (p.until = NoDate \/ DateLE(target_date, p.until)))
    IN [i \in 1..Len(active) |-> sessions[active[i].session_id]]

\* the fees appended to session_fees, in the order of member.participating_sessions
session_fees(member, target_date) ==
    LET active == SelectSeq(member_participations(member),
                     LAMBDA p : /\ DateLE(p.since, target_date)
                                /\ (p.until = NoDate \/ DateLT(target_date, p.until)))
    IN [i \in 1..Len(active) |-> sessions[active[i].session_id]]

\* base_fee with the age limit off by one (a member is a youth up to and including 18)
base_fee_youth_at_18(member, target_date) ==
    LET member_age == nominal_year_diff(members[member].birthday, target_date)
    IN IF ~members[member].is_honorary_member
       THEN IF \E t \in trainers : t[1] = member
            THEN get_fixed_cost(BasicFeeTrainersKey)
            ELSE IF member_age <= AdultAge
                 THEN get_fixed_cost(BasicFeeYouthsKey)
                 ELSE get_fixed_cost(BasicFeeAdultsKey)
       ELSE 0

\* the base fee of a member without override
base_fee(member, target_date) ==
    LET member_age == nominal_year_diff(members[member].birthday, target_date)
    IN IF ~members[member].is_honorary_member
       THEN IF \E t \in trainers : t[1] = member
            THEN get_fixed_cost(BasicFeeTrainersKey)
            ELSE IF member_age < AdultAge
                 THEN get_fixed_cost(BasicFeeYouthsKey)
                 ELSE get_fixed_cost(BasicFeeAdultsKey)
       ELSE 0

\* training_fee that sorts without reverse=True
training_fee_ascending(member, target_date) ==
    LET fees == session_fees(member, target_date)
        ordered == sorted(fees, [i \in DOMAIN fees |-> <<fees[i], 0>>], FALSE)
    IN (IF Len(ordered) >= 1 THEN ordered[1] ELSE 0)
       + (IF Len(ordered) >= 2 THEN DecMul(Decimal(0, 75), ordered[2]) ELSE 0)

\* the training fees: the most expensive session 100%, the second 75%
training_fee(member, target_date) ==
    LET fees == session_fees(member, target_date)
        ordered == sorted(fees, [i \in DOMAIN fees |-> <<fees[i], 0>>], TRUE)
    IN (IF Len(ordered) >= 1 THEN ordered[1] ELSE 0)
       + (IF Len(ordered) >= 2 THEN DecMul(Decimal(0, 75), ordered[2]) ELSE 0)

RECURSIVE compute_monthly_fee(_, _, _)

\* family_discount that ranks equal fees by ascending member id
family_discount_ascending_id(relatives, fees, child_indices, adult_indices, member_index) ==
    LET by_fee == sorted(adult_indices,
                         [i \in DOMAIN adult_indices |-> <<fees[adult_indices[i]], 0>>],
                         TRUE)
        sorted_adults == SubSeq(by_fee, 1, 2)
        pool == child_indices \o sorted_adults
        overall == sorted(pool,
                          [i \in DOMAIN pool |-> <<fees[pool[i]], 0 - relatives[pool[i]]>>],
                          TRUE)
        index == CHOOSE p \in DOMAIN overall : overall[p] = member_index
    IN IF member_index \in Range(overall)
       THEN IF index - 1 >= 4
            THEN IF member_index \in Range(child_indices) THEN Decimal(0, 0) ELSE Decimal(1, 0)
            ELSE IF index - 1 >= 2 THEN Decimal(0, 50) ELSE Decimal(1, 0)
       ELSE Decimal(1, 0)

\* family_discount that charges the members ranked third and fourth one and a half
\* times their fee
family_discount_surcharge(relatives, fees, child_indices, adult_indices, member_index) ==
    LET by_fee == sorted(adult_indices,
                         [i \in DOMAIN adult_indices |-> <<fees[adult_indices[i]], 0>>],
                         TRUE)
        sorted_adults == SubSeq(by_fee, 1, 2)
        pool == child_indices \o sorted_adults
        overall == sorted(pool,
                          [i \in DOMAIN pool |-> <<fees[pool[i]], relatives[pool[i]]>>],
                          TRUE)
        index == CHOOSE p \in DOMAIN overall : overall[p] = member_index
    IN IF member_index \in Range(overall)
       THEN IF index - 1 >= 4
            THEN IF member_index \in Range(child_indices) THEN Decimal(0, 0) ELSE Decimal(1, 0)
            ELSE IF index - 1 >= 2 THEN Decimal(1, 50) ELSE Decimal(1, 0)
       ELSE Decimal(1, 0)

\* compute_discount, the family discount: at least two adults and two children.
\* relatives and fees are the lists of the call; the indices count from 1.
family_discount(relatives, fees, child_indices, adult_indices, member_index) ==
    LET by_fee == sorted(adult_indices,
                         [i \in DOMAIN adult_indices |-> <<fees[adult_indices[i]], 0>>],
                         TRUE)
        \* Only two adults can take part in the family discount
        sorted_adults == SubSeq(by_fee, 1, 2)
        pool == child_indices \o sorted_adults
        overall == sorted(pool,
                          [i \in DOMAIN pool |-> <<fees[pool[i]], relatives[pool[i]]>>],
                          TRUE)
        index == CHOOSE p \in DOMAIN overall : overall[p] = member_index
    IN IF member_index \in Range(overall)
       THEN IF index - 1 >= 4
            THEN IF member_index \in Range(child_indices) THEN Decimal(0, 0) ELSE Decimal(1, 0)
            ELSE IF index - 1 >= 2 THEN Decimal(0, 50) ELSE Decimal(1, 0)
       ELSE Decimal(1, 0)

\* sibling_discount that lets the highest id among the tied children pay in full
sibling_discount_highest_id(relatives, fees, child_indices, member_index) ==
    LET child_fees == sorted([i \in DOMAIN child_indices |-> fees[child_indices[i]]],
                             [i \in DOMAIN child_indices |-> <<fees[child_indices[i]], 0>>],
                             TRUE)
        filtered == SelectSeq(child_indices, LAMBDA x : fees[x] = child_fees[1])
        highest_paying == sorted(filtered,
                                 [i \in DOMAIN filtered |-> <<relatives[filtered[i]], 0>>],
                                 TRUE)[1]
    IN IF fees[member_index] < child_fees[1] THEN Decimal(0, 50)
       ELSE IF child_fees[1] = child_fees[2] /\ member_index # highest_paying
            THEN Decimal(0, 50)
       ELSE Decimal(1, 0)

\* compute_discount, the sibling discount: the member is one of at least two children
sibling_discount(relatives, fees, child_indices, member_index) ==
    LET child_fees == sorted([i \in DOMAIN child_indices |-> fees[child_indices[i]]],
                             [i \in DOMAIN child_indices |-> <<fees[child_indices[i]], 0>>],
                             TRUE)
        filtered == SelectSeq(child_indices, LAMBDA x : fees[x] = child_fees[1])
        highest_paying == sorted(filtered,
                                 [i \in DOMAIN filtered |-> <<relatives[filtered[i]], 0>>],
                                 FALSE)[1]
    IN IF fees[member_index] < child_fees[1] THEN Decimal(0, 50)
       ELSE IF child_fees[1] = child_fees[2] /\ member_index # highest_paying
            THEN Decimal(0, 50)
       ELSE Decimal(1, 0)

\* the fees of the relatives as computed, their overrides left aside
RECURSIVE relatives_fees_without_override(_, _)
relatives_fees_without_override(relatives, target_date) ==
    IF relatives = <<>> THEN <<>>
    ELSE LET x == Head(relatives)
         IN << IF is_active(x, target_date)
               THEN base_fee(x, target_date) + training_fee(x, target_date)
               ELSE 0 >>
            \o relatives_fees_without_override(Tail(relatives), target_date)

\* [compute_monthly_fee(x, apply_discounts=False) for x in relatives]
RECURSIVE relatives_fees(_, _)
relatives_fees(relatives, target_date) ==
    IF relatives = <<>> THEN <<>>
    ELSE <<compute_monthly_fee(Head(relatives), FALSE, target_date)>>
         \o relatives_fees(Tail(relatives), target_date)

\* compute_discount that keeps the relatives that are not active
compute_discount_all_relatives(member, target_date) ==
    LET related == get_relatives(relations, member)
    IN IF Len(related) = 0 THEN Decimal(1, 0)
       ELSE
       LET relatives == Append(related, member)
           n == Len(relatives)
           fees == relatives_fees(relatives, target_date)
           indices == [i \in 1..n |-> i]
           isChild(i) == nominal_year_diff(members[relatives[i]].birthday, target_date)
                           < AdultAge
           child_indices == SelectSeq(indices, LAMBDA i : isChild(i))
           adult_indices == SelectSeq(indices, LAMBDA i : ~isChild(i))
           member_index == n
       IN IF Len(adult_indices) >= 2 /\ Len(child_indices) >= 2
          THEN family_discount(relatives, fees, child_indices, adult_indices, member_index)
          ELSE IF member_index \in Range(child_indices) /\ Len(child_indices) >= 2
          THEN sibling_discount(relatives, fees, child_indices, member_index)
          ELSE Decimal(1, 0)

compute_discount(member, target_date) ==
    LET related == SelectSeq(get_relatives(relations, member),
                             LAMBDA x : is_active(x, target_date))
    IN IF Len(related) = 0 THEN Decimal(1, 0)
       ELSE
       LET relatives == Append(related, member)
           n == Len(relatives)
           fees == relatives_fees(relatives, target_date)
           indices == [i \in 1..n |-> i]
           isChild(i) == nominal_year_diff(members[relatives[i]].birthday, target_date)
                           < AdultAge
           child_indices == SelectSeq(indices, LAMBDA i : isChild(i))
           adult_indices == SelectSeq(indices, LAMBDA i : ~isChild(i))
           member_index == n
       IN IF Len(adult_indices) >= 2 /\ Len(child_indices) >= 2
          THEN family_discount(relatives, fees, child_indices, adult_indices, member_index)
          ELSE IF member_index \in Range(child_indices) /\ Len(child_indices) >= 2
          THEN sibling_discount(relatives, fees, child_indices, member_index)
          ELSE Decimal(1, 0)

\* the apply_discounts that compute_discount passes for the fee of a relative
RelativeApplyDiscountsTrue == TRUE

RelativeApplyDiscounts == FALSE

\* the largest of a set of levels
Deepest(levels) == CHOOSE l \in levels : \A k \in levels : k <= l

RECURSIVE call_depth(_, _, _, _)
\* the deepest level of compute_monthly_fee that a call at the given level
\* reaches, through compute_discount and the fees of the relatives; the
\* levels are followed down to MaxDepth
call_depth(member, apply_discounts, target_date, level) ==
    IF level >= MaxDepth THEN level
    ELSE IF members[member].exit_date # NoDate
            /\ DateLE(members[member].exit_date, target_date) THEN level
    ELSE IF DateLT(target_date, members[member].entry_date) THEN level
    ELSE IF member \in DOMAIN feeoverrides THEN level
    ELSE IF ~apply_discounts THEN level
    ELSE LET related == SelectSeq(get_relatives(relations, member),
                                  LAMBDA x : is_active(x, target_date))
         IN IF Len(related) = 0 THEN level
            ELSE Deepest({call_depth(x, RelativeApplyDiscounts, target_date, level + 1) :
                             x \in Range(Append(related, member))})

\* compute_monthly_fee that looks for the override before the entry and exit dates
compute_monthly_fee_override_first(member, apply_discounts, target_date) ==
    IF member \in DOMAIN feeoverrides THEN feeoverrides[member]
    ELSE IF members[member].exit_date # NoDate
       /\ DateLE(members[member].exit_date, target_date) THEN 0
    ELSE IF DateLT(target_date, members[member].entry_date) THEN 0
    ELSE LET fee == base_fee(member, target_date) + training_fee(member, target_date)
         IN IF apply_discounts
            THEN DecMul(fee, compute_discount(member, target_date))
            ELSE fee

\* compute_monthly_fee that uses the override as the fee and goes on to the discount
compute_monthly_fee_override_discounted(member, apply_discounts, target_date) ==
    IF members[member].exit_date # NoDate
       /\ DateLE(members[member].exit_date, target_date) THEN 0
    ELSE IF DateLT(target_date, members[member].entry_date) THEN 0
    ELSE LET fee == IF member \in DOMAIN feeoverrides THEN feeoverrides[member]
                    ELSE base_fee(member, target_date) + training_fee(member, target_date)
         IN IF apply_discounts
            THEN DecMul(fee, compute_discount(member, target_date))
            ELSE fee

compute_monthly_fee(member, apply_discounts, target_date) ==
    IF members[member].exit_date # NoDate
       /\ DateLE(members[member].exit_date, target_date) THEN 0
    ELSE IF DateLT(target_date, members[member].entry_date) THEN 0
    ELSE IF member \in DOMAIN feeoverrides THEN feeoverrides[member]
    ELSE LET fee == base_fee(member, target_date) + training_fee(member, target_date)
         IN IF apply_discounts
            THEN DecMul(fee, compute_discount(member, target_date))
            ELSE fee

\* member.one_time_fees in a session that has deleted the objects `deleted` and
\* sees the table `rows`: the collection is loaded once per session and kept,
\* and an object the session deletes stays in the loaded collection
loaded_one_time_fees(deleted, rows, member) ==
    SelectSeq(deleted, LAMBDA f : f.member_id = member)
    \o SelectSeq(rows, LAMBDA f : f.member_id = member)

\* member.one_time_fees
one_time_fees(member) == loaded_one_time_fees(session_deleted, onetimecosts, member)

RECURSIVE SumAmounts(_)
SumAmounts(fees) ==
    IF fees = <<>> THEN 0 ELSE Head(fees).amount + SumAmounts(Tail(fees))

\* compute_total_fee that bills nothing to a member without monthly fee
compute_total_fee_only_paying(member, target_date) ==
    IF compute_monthly_fee(member, TRUE, target_date) = 0 THEN 0
    ELSE compute_monthly_fee(member, TRUE, target_date)
         + SumAmounts(one_time_fees(member))

compute_total_fee(member, target_date) ==
    compute_monthly_fee(member, TRUE, target_date) + SumAmounts(one_time_fees(member))

\* compute_monthly_fee returns before it asks for a fixed cost
returns_early(member, target_date) ==
    \/ members[member].exit_date # NoDate /\ DateLE(members[member].exit_date, target_date)
    \/ DateLT(target_date, members[member].entry_date)
    \/ member \in DOMAIN feeoverrides

\* the key of the fixed cost that is the member's base fee; none for an honorary member
base_fee_key(member, target_date) ==
    LET member_age == nominal_year_diff(members[member].birthday, target_date)
    IN IF ~members[member].is_honorary_member
       THEN IF \E t \in trainers : t[1] = member
            THEN BasicFeeTrainersKey
            ELSE IF member_age < AdultAge THEN BasicFeeYouthsKey ELSE BasicFeeAdultsKey
       ELSE NoKey

\* the key named by the error of compute_monthly_fee(member, apply_discounts=False)
base_fee_raises(member, target_date) ==
    LET key == base_fee_key(member, target_date)
    IN IF ~returns_early(member, target_date) /\ key # NoKey /\ get_fixed_cost_raises(key)
       THEN key ELSE NoKey

RECURSIVE relatives_fees_raise(_, _)
\* the key named by the first error in the list of the fees of the relatives
relatives_fees_raise(relatives, target_date) ==
    IF relatives = <<>> THEN NoKey
    ELSE IF base_fee_raises(Head(relatives), target_date) # NoKey
    THEN base_fee_raises(Head(relatives), target_date)
    ELSE relatives_fees_raise(Tail(relatives), target_date)

\* the key named by the error of compute_discount
compute_discount_raises(member, target_date) ==
    LET related == SelectSeq(get_relatives(relations, member),
                             LAMBDA x : is_active(x, target_date))
    IN IF Len(related) = 0 THEN NoKey
       ELSE relatives_fees_raise(Append(related, member), target_date)

\* compute_monthly_fee that fails for its own base fee only
compute_monthly_fee_raises_own(member, apply_discounts, target_date) ==
    base_fee_raises(member, target_date)

\* the key named by the error of compute_monthly_fee, which no caller catches
compute_monthly_fee_raises(member, apply_discounts, target_date) ==
    IF base_fee_raises(member, target_date) # NoKey
    THEN base_fee_raises(member, target_date)
    ELSE IF apply_discounts /\ ~returns_early(member, target_date)
    THEN compute_discount_raises(member, target_date)
    ELSE NoKey

compute_total_fee_raises(member, target_date) ==
    compute_monthly_fee_raises(member, TRUE, target_date)

---------------------------------------------------------------------------
(* Archiving and the tally *)

\* ArchivedOneTimeFee.fromFee; the column billed defaults to the time of the insert
fromFee(fee) ==
    [member_id |-> fee.member_id, reason |-> fee.reason, amount |-> fee.amount,
     billed |-> now]

RECURSIVE archive_fees(_, _)
\* the loop of archive_onetimecosts: session.add(archived); session.delete(fee)
archive_fees(state, fees) ==
    IF fees = <<>> THEN state
    ELSE LET fee == Head(fees)
             present == \E i \in DOMAIN state.onetimecosts : state.onetimecosts[i] = fee
         IN archive_fees(
               [state EXCEPT
                  !.archived_onetimecosts = Append(@, fromFee(fee)),
                  !.onetimecosts = SelectSeq(@, LAMBDA f : f # fee),
                  !.session_deleted = IF present THEN Append(@, fee) ELSE @],
               Tail(fees))

\* Optional[Member]: None
NoMember == 0

archive_onetimecosts(state, member) ==
    archive_fees(state,
                 IF member # NoMember
                 THEN loaded_one_time_fees(state.session_deleted, state.onetimecosts, member)
                 ELSE state.onetimecosts)

Asset(debitor, amount) == [debitor |-> debitor, amount |-> amount]

\* assemble_monthly_fee_assets that emits an asset for a fee of zero as well
assemble_member_fee_not_negative(state, member, collection_date, clear_onetimecosts) ==
    LET fee == compute_total_fee(member, collection_date)
    IN IF state.raised # NoKey THEN state
       ELSE IF compute_total_fee_raises(member, collection_date) # NoKey
       THEN [state EXCEPT !.raised = compute_total_fee_raises(member, collection_date)]
       ELSE IF fee >= 0
       THEN [(IF clear_onetimecosts THEN archive_onetimecosts(state, member) ELSE state)
                EXCEPT !.assets = Append(@, Asset(member, fee))]
       ELSE state

\* the body of the loop of assemble_monthly_fee_assets; archiving leaves the
\* collections of the other members alone, so that every fee is the one
\* computed on the tables as the call found them. An error of compute_total_fee
\* ends the loop: state.raised is the key it names.
assemble_member(state, member, collection_date, clear_onetimecosts) ==
    LET fee == compute_total_fee(member, collection_date)
    IN IF state.raised # NoKey THEN state
       ELSE IF compute_total_fee_raises(member, collection_date) # NoKey
       THEN [state EXCEPT !.raised = compute_total_fee_raises(member, collection_date)]
       ELSE IF fee > 0
       THEN [(IF clear_onetimecosts THEN archive_onetimecosts(state, member) ELSE state)
                EXCEPT !.assets = Append(@, Asset(member, fee))]
       ELSE state

RECURSIVE assemble_members(_, _, _, _)
assemble_members(state, ms, collection_date, clear_onetimecosts) ==
    IF ms = <<>> THEN state
    ELSE assemble_members(
            assemble_member(state, Head(ms), collection_date, clear_onetimecosts),
            Tail(ms), collection_date, clear_onetimecosts)

\* the tables and the session as assemble_monthly_fee_assets leaves them, with
\* the assets it returns
assemble_monthly_fee_assets(collection_date, clear_onetimecosts) ==
    assemble_members(
        [onetimecosts |-> onetimecosts, archived_onetimecosts |-> archived_onetimecosts,
         session_deleted |-> session_deleted, assets |-> <<>>, raised |-> NoKey],
        SelectSeq(Ascending(DOMAIN members),
                  LAMBDA m : members[m].sepa_mandate_date # NoDate),
        collection_date, clear_onetimecosts)

\* "{:.2f}".format(amount) of a Decimal, as its number of cents: the third
\* decimal onwards is rounded away, a half to the even cent
Format2f(amount) ==
    LET cent == Decimal(0, 1)
        q == amount \div cent
        r == amount % cent
    IN IF 2 * r < cent THEN q
       ELSE IF 2 * r > cent THEN q + 1
       ELSE IF q % 2 = 0 THEN q ELSE q + 1

RECURSIVE to_sepa_transactions(_)
\* the total and the transactions, of which the model keeps the mandate id
\* and the instructed amount
to_sepa_transactions(assets) ==
    IF assets = <<>> THEN [total |-> 0, transactions |-> <<>>]
    ELSE LET asset == Head(assets)
             rest == to_sepa_transactions(Tail(assets))
         IN IF asset.amount = 0 THEN rest
            ELSE [total |-> asset.amount + rest.total,
                  transactions |->
                     <<[mndt_id |-> asset.debitor, instd_amt |-> Format2f(asset.amount)]>>
                     \o rest.transactions]

\* the document: the group header and the one payment-instruction block
create_sepa_payment_initiation_message_object(msg_id, collection_date, assets) ==
    LET sepa == to_sepa_transactions(assets)
    IN [grp_hdr |-> [msg_id |-> msg_id, cre_dt_tm |-> now,
                     nb_of_txs |-> Len(sepa.transactions),
                     ctrl_sum |-> Format2f(sepa.total)],
        pmt_inf |-> [pmt_inf_id |-> msg_id,
                     nb_of_txs |-> Len(sepa.transactions),
                     ctrl_sum |-> Format2f(sepa.total),
                     reqd_colltn_dt |-> collection_date,
                     drct_dbt_tx_inf |-> sepa.transactions]]

\* "Memmer-<date>-<hour>-<minute>-<second>": the time of the call to the second
message_id(time) == <<"Memmer", time>>

---------------------------------------------------------------------------
(* The calls *)

Ids == 1..NumMembers
SessionIds == 1..NumSessions

\* the days a fee is asked for: consecutive days of one month
Day(k) == <<2024, 6, 9 + k>>
TargetDates == {Day(k) : k \in 1..NumDays}

\* NULL of a text column
Null == "NULL"

\* no row of members
NoRow == [birthday |-> NoDate, entry_date |-> NoDate, exit_date |-> NoDate,
          is_honorary_member |-> FALSE, sepa_mandate_date |-> NoDate,
          iban |-> Null, bic |-> Null, account_owner |-> Null]

NoCall == [op |-> "none", member |-> 0, apply_discounts |-> FALSE,
           target_date |-> NoDate, value |-> 0, assets |-> <<>>, raised |-> FALSE,
           second |-> 0, relatives |-> <<>>, first_date |-> NoDate, key |-> "",
           date |-> NoDate, row |-> NoRow]

Returned(op, member, apply_discounts, target_date, value) ==
    [op |-> op, member |-> member, apply_discounts |-> apply_discounts,
     target_date |-> target_date, value |-> value, assets |-> <<>>, raised |-> FALSE,
     second |-> 0, relatives |-> <<>>, first_date |-> NoDate, key |-> "",
     date |-> NoDate, row |-> NoRow]

\* the call ended with the RuntimeError of get_fixed_cost that names the key
Raised(op, member, apply_discounts, target_date, key) ==
    [Returned(op, member, apply_discounts, target_date, 0)
        EXCEPT !.raised = TRUE, !.key = key]

\* datetime.date: the dates of the years, months and days looked at
IsLeapYear(year) == year % 4 = 0 /\ (year % 100 # 0 \/ year % 400 = 0)

DaysInMonth(year, month) ==
    IF month = 2 THEN (IF IsLeapYear(year) THEN 29 ELSE 28)
    ELSE IF month \in {4, 6, 9, 11} THEN 30 ELSE 31

\* the day after a date
NextDay(date) ==
    IF date[3] < DaysInMonth(date[1], date[2]) THEN <<date[1], date[2], date[3] + 1>>
    ELSE IF date[2] < 12 THEN <<date[1], date[2] + 1, 1>>
    ELSE <<date[1] + 1, 1, 1>>

\* the days before the first of January of a year, from 1 January of year 1
days_before_year(year) ==
    LET y == year - 1
    IN y * 365 + y \div 4 - y \div 100 + y \div 400

RECURSIVE days_before_month(_, _)
\* the days of a year before the first day of a month
days_before_month(year, month) ==
    IF month = 1 THEN 0
    ELSE days_before_month(year, month - 1) + DaysInMonth(year, month - 1)

\* date.toordinal(): 1 January of year 1 is day 1
toordinal(date) ==
    days_before_year(date[1]) + days_before_month(date[1], date[2]) + date[3]

\* the years of the calendar of the model
CalendarYears == 2000 .. 2030

\* date.fromordinal(n)
fromordinal(n) ==
    LET year == CHOOSE y \in CalendarYears :
                   days_before_year(y) < n /\ n <= days_before_year(y + 1)
        month == CHOOSE m \in 1..12 :
                    /\ days_before_month(year, m) < n - days_before_year(year)
                    /\ n - days_before_year(year)
                          <= days_before_month(year, m) + DaysInMonth(year, m)
    IN <<year, month, n - days_before_year(year) - days_before_month(year, month)>>

\* date + datetime.timedelta(days=days)
timedelta(date, days) == fromordinal(toordinal(date) + days)

\* date.weekday(): Monday is 0 and Sunday is 6
weekday(date) == (toordinal(date) + 6) % 7

\* determine_tally_collection_date that leaves a Saturday where it is
determine_tally_collection_date_saturday(current, selected_year, selected_month) ==
    LET min_collection_date == timedelta(current, 2)
        selected_date == <<selected_year, selected_month, 1>>
        collection_date == IF DateLT(min_collection_date, selected_date)
                           THEN selected_date ELSE min_collection_date
        day_offset == IF weekday(collection_date) > 5
                      THEN 7 - weekday(collection_date) ELSE 0
    IN timedelta(collection_date, day_offset)

\* MemmerGUI.determine_tally_collection_date and TallyWidget.__update_collection_date,
\* with current the date of datetime.datetime.now()
determine_tally_collection_date(current, selected_year, selected_month) ==
    LET min_collection_date == timedelta(current, 2)
        selected_date == <<selected_year, selected_month, 1>>
        \* Collection date must be later or equal to min_collection_date
        collection_date == IF DateLT(min_collection_date, selected_date)
                           THEN selected_date ELSE min_collection_date
        \* Collection date can't be a Saturday or Sunday
        day_offset == IF weekday(collection_date) >= 5
                      THEN 7 - weekday(collection_date) ELSE 0
    IN timedelta(collection_date, day_offset)

\* the years the tally form is opened in and offers
FormYears == {2023, 2024}

FormDates ==
    {date \in FormYears \X (1..12) \X (1..31) : date[3] <= DaysInMonth(date[1], date[2])}

\* the tally form proposes a collection date for the selected year and month
DetermineTallyCollectionDate ==
    /\ ret = NoCall
    /\ \E current \in FormDates, selected_year \in FormYears, selected_month \in 1..12 :
          ret' = [NoCall EXCEPT
                     !.op = "determine_tally_collection_date",
                     !.first_date = current,
                     !.target_date = <<selected_year, selected_month, 1>>,
                     !.date = determine_tally_collection_date(current, selected_year,
                                                              selected_month)]
    /\ UNCHANGED <<db, env>>

\* the date of the clock: datetime.datetime.now().date()
today == Day(NumDays)

\* the day of ArchivedOneTimeFee.billed, which is a time of the clock's day
billed_date(fee) == today

\* clear_outdated_entries(session): the rows of the members that have left and
\* the rows that refer to them (ON DELETE CASCADE, with foreign keys enforced),
\* the participations that have ended, and the archived fees billed more than
\* ninety days ago
ClearOutdatedEntries ==
    /\ ret = NoCall
    /\ LET three_months_ago == timedelta(today, - 3 * 30)
           left == {m \in DOMAIN members :
                      members[m].exit_date # NoDate /\ DateLT(members[m].exit_date, today)}
       IN /\ participations' =
                SelectSeq(participations,
                          LAMBDA p : /\ ~(p.until # NoDate /\ DateLT(p.until, today))
                                     /\ p.member_id \notin left)
          /\ members' = [m \in DOMAIN members \ left |-> members[m]]
          /\ trainers' = {t \in trainers : t[1] \notin left}
          /\ relations' = SelectSeq(relations, LAMBDA r : r[1] \notin left /\ r[2] \notin left)
          /\ feeoverrides' = [m \in DOMAIN feeoverrides \ left |-> feeoverrides[m]]
          /\ onetimecosts' = SelectSeq(onetimecosts, LAMBDA f : f.member_id \notin left)
          /\ archived_onetimecosts' =
                SelectSeq(archived_onetimecosts,
                          LAMBDA f : /\ ~DateLT(billed_date(f), three_months_ago)
                                     /\ f.member_id \notin left)
          /\ session_deleted' = SelectSeq(session_deleted, LAMBDA f : f.member_id \notin left)
          /\ ret' = [NoCall EXCEPT !.op = "clear_outdated_entries", !.date = today]
    /\ UNCHANGED <<sessions, fixedcosts, tallies, now, output_dir, output_dir_exists>>

\* a leap year, the year after it, and the years 18 years later
SampleYears == {2004, 2005, 2022, 2023}
SampleMonths == {1, 2, 3, 12}
SampleDays == {1, 28, 29, 31}

SampleDates ==
    {date \in SampleYears \X SampleMonths \X SampleDays :
        date[3] <= DaysInMonth(date[1], date[2])}

\* The caller is single-threaded: one call at a time, and Return hands the
\* result back before the next call is made.
ComputeMonthlyFee ==
    /\ ret = NoCall
    /\ \E m \in DOMAIN members, a \in BOOLEAN, D \in TargetDates :
          ret' = IF compute_monthly_fee_raises(m, a, D) # NoKey
                 THEN Raised("compute_monthly_fee", m, a, D, compute_monthly_fee_raises(m, a, D))
                 ELSE Returned("compute_monthly_fee", m, a, D, compute_monthly_fee(m, a, D))
    /\ UNCHANGED <<db, env>>

ComputeTotalFee ==
    /\ ret = NoCall
    /\ \E m \in DOMAIN members, D \in TargetDates :
          ret' = IF compute_total_fee_raises(m, D) # NoKey
                 THEN Raised("compute_total_fee", m, TRUE, D, compute_total_fee_raises(m, D))
                 ELSE Returned("compute_total_fee", m, TRUE, D, compute_total_fee(m, D))
    /\ UNCHANGED <<db, env>>

ComputeDiscount ==
    /\ ret = NoCall
    /\ \E m \in DOMAIN members, D \in TargetDates :
          ret' = IF compute_discount_raises(m, D) # NoKey
                 THEN Raised("compute_discount", m, TRUE, D, compute_discount_raises(m, D))
                 ELSE Returned("compute_discount", m, TRUE, D, compute_discount(m, D))
    /\ UNCHANGED <<db, env>>

\* create_tally(session, output_dir, collection_date) of a regular monthly
\* tally (assets is None); the settings it reads are in the database. Writing
\* the file raises when the directory is not there, after the assets have
\* been assembled. An error of get_fixed_cost leaves the loop over the
\* members where it is raised.
CreateTally ==
    /\ ret = NoCall
    /\ Len(tallies) < MaxTallies
    /\ Len(archived_onetimecosts) < MaxArchived
    /\ \E collection_date \in TargetDates :
          LET assembled == assemble_monthly_fee_assets(collection_date, TRUE)
              message == create_sepa_payment_initiation_message_object(
                            message_id(now), collection_date, assembled.assets)
              total_amount == Decimal(0, message.grp_hdr.ctrl_sum)
              called == [Returned("create_tally", NoMember, TRUE, collection_date,
                                  total_amount)
                            EXCEPT !.assets = assembled.assets]
          IN /\ onetimecosts' = assembled.onetimecosts
             /\ archived_onetimecosts' = assembled.archived_onetimecosts
             /\ session_deleted' = assembled.session_deleted
             /\ IF assembled.raised # NoKey
                THEN /\ UNCHANGED <<output_dir, tallies>>
                     /\ ret' = Raised("create_tally", NoMember, TRUE, collection_date,
                                      assembled.raised)
                ELSE IF output_dir_exists
                THEN /\ output_dir' = [name \in DOMAIN output_dir \cup {message_id(now)} |->
                                          IF name = message_id(now) THEN message
                                          ELSE output_dir[name]]
                     /\ tallies' = Append(tallies,
                                          [creation_time |-> now,
                                           collection_date |-> collection_date,
                                           total_amount |-> total_amount,
                                           contents |-> message])
                     /\ ret' = called
                ELSE /\ UNCHANGED <<output_dir, tallies>>
                     /\ ret' = [called EXCEPT !.value = 0, !.raised = TRUE]
    /\ UNCHANGED <<members, sessions, participations, trainers, relations, fixedcosts,
                   feeoverrides, now, output_dir_exists>>

\* session.commit(): the deletions are final and every loaded collection expires
Commit ==
    /\ ret = NoCall
    /\ session_deleted' = <<>>
    /\ UNCHANGED <<db, now, output_dir, output_dir_exists, ret>>

\* a second passes
Tick ==
    /\ ret = NoCall
    /\ now < MaxClock
    /\ now' = now + 1
    /\ UNCHANGED <<db, session_deleted, output_dir, output_dir_exists, ret>>

\* a call on the relation table, which returns nothing
Related(op, member, second, relatives) ==
    [NoCall EXCEPT !.op = op, !.member = member, !.second = second,
                   !.relatives = relatives]

MakeRelation ==
    /\ ret = NoCall
    /\ \E first \in DOMAIN members : \E second \in DOMAIN members \ {first} :
          /\ Len(make_relation(relations, first, second)) <= MaxRelations
          /\ relations' = make_relation(relations, first, second)
          /\ ret' = Related("make_relation", first, second, <<>>)
    /\ UNCHANGED <<members, sessions, participations, trainers, fixedcosts, feeoverrides,
                   onetimecosts, archived_onetimecosts, tallies, env>>

DropRelation ==
    /\ ret = NoCall
    /\ \E first \in DOMAIN members : \E second \in DOMAIN members \ {first} :
          /\ relations' = drop_relation(relations, first, second)
          /\ ret' = Related("drop_relation", first, second, <<>>)
    /\ UNCHANGED <<members, sessions, participations, trainers, fixedcosts, feeoverrides,
                   onetimecosts, archived_onetimecosts, tallies, env>>

ClearRelations ==
    /\ ret = NoCall
    /\ \E member \in DOMAIN members :
          /\ relations' = clear_relations(relations, member)
          /\ ret' = Related("clear_relations", member, NoMember, <<>>)
    /\ UNCHANGED <<members, sessions, participations, trainers, fixedcosts, feeoverrides,
                   onetimecosts, archived_onetimecosts, tallies, env>>

\* the member's form is saved with the list of relatives as it was populated:
\* set_relatives(member, get_relatives(member))
SaveMember ==
    /\ ret = NoCall
    /\ \E member \in DOMAIN members :
          LET relatives == get_relatives(relations, member)
          IN /\ relations' = set_relatives(relations, member, relatives)
             /\ ret' = Related("save_member", member, NoMember, relatives)
    /\ UNCHANGED <<members, sessions, participations, trainers, fixedcosts, feeoverrides,
                   onetimecosts, archived_onetimecosts, tallies, env>>

\* the relatives are those selected in the list of the member's form
SetRelatives ==
    /\ ret = NoCall
    /\ \E member \in DOMAIN members :
          \E selected \in SUBSET (DOMAIN members \ {member}) :
             LET relatives == Ascending(selected)
             IN /\ Len(set_relatives(relations, member, relatives)) <= MaxRelations
                /\ relations' = set_relatives(relations, member, relatives)
                /\ ret' = Related("set_relatives", member, NoMember, relatives)
    /\ UNCHANGED <<members, sessions, participations, trainers, fixedcosts, feeoverrides,
                   onetimecosts, archived_onetimecosts, tallies, env>>

\* Member.__table_args__ without the constraint on bic
check_constraints_without_bic(row) ==
    /\ row.iban # Null \/ row.sepa_mandate_date = NoDate
    /\ row.account_owner # Null \/ row.sepa_mandate_date = NoDate

\* Member.__table_args__: the CHECK constraints of the table members
check_constraints(row) ==
    /\ row.iban # Null \/ row.sepa_mandate_date = NoDate
    /\ row.bic # Null \/ row.sepa_mandate_date = NoDate
    /\ row.account_owner # Null \/ row.sepa_mandate_date = NoDate

\* the account details and the mandate date that a row is given
BankDetails ==
    [iban : {Null, "AD1400080001001234567890"}, bic : {Null, "NOSCCATTXXX"},
     account_owner : {Null, "Someone else"}, sepa_mandate_date : {NoDate, <<1987, 3, 21>>}]

WithBankDetails(row, details) ==
    [row EXCEPT !.iban = details.iban, !.bic = details.bic,
                !.account_owner = details.account_owner,
                !.sepa_mandate_date = details.sepa_mandate_date]

\* the call on the table members: the row it was to store, raised on IntegrityError
Stored(op, member, row, raised) ==
    [NoCall EXCEPT !.op = op, !.member = member, !.row = row, !.raised = raised]

\* session.add(Member(...)); session.commit()
AddMember ==
    /\ ret = NoCall
    /\ Len(members) < MaxMemberRows
    /\ \E details \in BankDetails :
          LET row == WithBankDetails(
                        [NoRow EXCEPT !.birthday = <<1935, 1, 8>>, !.entry_date = <<1987, 3, 21>>],
                        details)
          IN IF check_constraints(row)
             THEN /\ members' = Append(members, row)
                  /\ ret' = Stored("add_member", Len(members) + 1, row, FALSE)
             ELSE /\ members' = members
                  /\ ret' = Stored("add_member", NoMember, row, TRUE)
    /\ UNCHANGED <<sessions, participations, trainers, relations, fixedcosts, feeoverrides,
                   onetimecosts, archived_onetimecosts, tallies, env>>

\* member.iban = ...; member.sepa_mandate_date = ...; session.commit(), and
\* session.rollback() after an IntegrityError
UpdateMember ==
    /\ ret = NoCall
    /\ \E member \in DOMAIN members, details \in BankDetails :
          LET row == WithBankDetails(members[member], details)
          IN IF check_constraints(row)
             THEN /\ members' = [members EXCEPT ![member] = row]
                  /\ ret' = Stored("update_member", member, row, FALSE)
             ELSE /\ members' = members
                  /\ ret' = Stored("update_member", member, row, TRUE)
    /\ UNCHANGED <<sessions, participations, trainers, relations, fixedcosts, feeoverrides,
                   onetimecosts, archived_onetimecosts, tallies, env>>

\* nominal_year_diff(first, second) for two dates of the calendar
NominalYearDiff ==
    /\ ret = NoCall
    /\ \E first \in SampleDates : \E second \in SampleDates :
          ret' = [Returned("nominal_year_diff", NoMember, FALSE, second,
                           nominal_year_diff(first, second))
                     EXCEPT !.first_date = first]
    /\ UNCHANGED <<db, env>>

Return ==
    /\ ret # NoCall
    /\ ret' = NoCall
    /\ UNCHANGED <<db, env>>

---------------------------------------------------------------------------
(* The databases the calls are made on *)

\* a session just opened on the database; an output directory that is there
FreshSession ==
    /\ session_deleted = <<>>
    /\ now = 0
    /\ output_dir = <<>>
    /\ output_dir_exists = TRUE

\* tests/test_operations.py: the fixed costs 5, 4 and 1
FixtureCosts ==
    (BasicFeeAdultsKey :> Decimal(5, 0)) @@ (BasicFeeYouthsKey :> Decimal(4, 0))
    @@ (BasicFeeTrainersKey :> Decimal(1, 0))

\* tests/test_operations.py: the sessions' fees 16, 20 and 28
FixtureSessions ==
    [s \in SessionIds |-> IF s = 1 THEN Decimal(16, 0)
                          ELSE IF s = 2 THEN Decimal(20, 0) ELSE Decimal(28, 0)]

EarlyDate == <<2020, 1, 1>>

MemberRow(birthday, entry_date, exit_date, honorary, mandate) ==
    [birthday |-> birthday, entry_date |-> entry_date, exit_date |-> exit_date,
     is_honorary_member |-> honorary, sepa_mandate_date |-> mandate,
     iban |-> IF mandate # NoDate THEN "AD1400080001001234567890" ELSE Null,
     bic |-> IF mandate # NoDate THEN "NOSCCATTXXX" ELSE Null,
     account_owner |-> IF mandate # NoDate THEN "Someone else" ELSE Null]

ChildBirthday == <<2015, 3, 1>>
AdultBirthday == <<1980, 9, 30>>
\* the 18th birthday is Day(2)
ComingOfAgeBirthday == <<2006, 6, 11>>

PlainChild == MemberRow(ChildBirthday, EarlyDate, NoDate, FALSE, EarlyDate)

Participation(member, session, since, until) ==
    [member_id |-> member, session_id |-> session, since |-> since, until |-> until]

OneTimeFee(id, member, reason, amount) ==
    [id |-> id, member_id |-> member, reason |-> reason, amount |-> amount]

\* rows of a family: make_relation(first, k) for every other member k, in order
RECURSIVE RelateAll(_, _, _)
RelateAll(rows, first, others) ==
    IF others = <<>> THEN rows
    ELSE RelateAll(make_relation(rows, first, Head(others)), first, Tail(others))

\* The member whose data varies; the others are plain children.
Focus == NumMembers - 1

FocusParticipations ==
    { <<>>,
      << Participation(Focus, 1, EarlyDate, NoDate) >>,
      << Participation(Focus, 3, Day(2), NoDate) >>,
      << Participation(Focus, 3, EarlyDate, Day(2)) >>,
      << Participation(Focus, 1, EarlyDate, NoDate),
         Participation(Focus, 3, EarlyDate, NoDate),
         Participation(Focus, 2, EarlyDate, NoDate) >> }

FocusOneTimeFees ==
    { [i \in 1..k |-> OneTimeFee(i, Focus, "fee", Decimal(10 * i, 0))] : k \in 0..MaxOneTimeFees }

Init ==
    /\ \E birthday \in {ChildBirthday, ComingOfAgeBirthday, AdultBirthday},
          entry_date \in {EarlyDate, Day(2)},
          exit_date \in {NoDate} \cup {Day(k) : k \in 2..NumDays},
          honorary \in BOOLEAN :
          members = [i \in Ids |->
                        IF i = Focus
                        THEN MemberRow(birthday, entry_date, exit_date, honorary, EarlyDate)
                        ELSE PlainChild]
    /\ sessions = FixtureSessions
    /\ participations \in FocusParticipations
    /\ trainers \in {{}, {<<Focus, 1>>}}
    /\ relations \in {<<>>, RelateAll(<<>>, 1, Ascending(Ids \ {1}))}
    /\ fixedcosts = FixtureCosts
    /\ feeoverrides \in {<<>>, Focus :> Decimal(0, 0), Focus :> Decimal(3, 0)}
    /\ onetimecosts \in FocusOneTimeFees
    /\ archived_onetimecosts = <<>>
    /\ tallies = <<>>
    /\ FreshSession
    /\ ret = NoCall

Next ==
    \/ ComputeMonthlyFee
    \/ ComputeTotalFee
    \/ Return

Spec == Init /\ [][Next]_vars

---------------------------------------------------------------------------
(* Tallies over members with and without a mandate, paying and not paying *)

\* the first member is a child who stays or who leaves on Day(2); the last has
\* no mandate, or is an honorary adult, who pays nothing; the others are children
TallyMembers ==
    { [i \in Ids |-> IF i = 1 THEN first ELSE IF i = NumMembers THEN last ELSE PlainChild] :
        first \in { PlainChild,
                    MemberRow(ChildBirthday, EarlyDate, Day(2), FALSE, EarlyDate) },
        last \in { MemberRow(ChildBirthday, EarlyDate, NoDate, FALSE, NoDate),
                   MemberRow(AdultBirthday, EarlyDate, NoDate, TRUE, EarlyDate) } }

\* outstanding fees of any members, all of the same reason and amount
OutstandingLists ==
    UNION { { [i \in 1..k |-> OneTimeFee(i, f[i], "fee", Decimal(10, 0))] :
                f \in { g \in [1..k -> Ids] : \A i, j \in 1..k : i < j => g[i] <= g[j] } } :
            k \in 0..MaxOneTimeFees }

InitTally ==
    /\ members \in TallyMembers
    /\ sessions = FixtureSessions
    /\ participations = <<>>
    /\ trainers = {}
    /\ relations = <<>>
    /\ fixedcosts = FixtureCosts
    /\ feeoverrides = <<>>
    /\ onetimecosts \in OutstandingLists
    /\ archived_onetimecosts = <<>>
    /\ tallies = <<>>
    /\ session_deleted = <<>>
    /\ now = 0
    /\ output_dir = <<>>
    /\ output_dir_exists \in BOOLEAN
    /\ ret = NoCall

NextTally ==
    \/ CreateTally
    \/ Commit
    \/ Tick
    \/ Return

SpecTally == InitTally /\ [][NextTally]_vars

---------------------------------------------------------------------------
(* Relation tables of every shape: none, a pair, a clique, and a member that is
   related to itself *)

RelationShapes ==
    { <<>>,
      make_relation(<<>>, 1, Focus),
      RelateAll(<<>>, 1, Ascending(Ids \ {1})),
      make_relation(<<>>, 1, 1),
      make_relation(RelateAll(<<>>, 1, Ascending(Ids \ {1})), 1, 1) }

InitShapes ==
    /\ \E birthday \in {ChildBirthday, AdultBirthday},
          exit_date \in {NoDate, Day(2)} :
          members = [i \in Ids |->
                        IF i = Focus
                        THEN MemberRow(birthday, EarlyDate, exit_date, FALSE, EarlyDate)
                        ELSE PlainChild]
    /\ sessions = FixtureSessions
    /\ participations = <<>>
    /\ trainers = {}
    /\ relations \in RelationShapes
    /\ fixedcosts = FixtureCosts
    /\ feeoverrides \in {<<>>, Focus :> Decimal(3, 0)}
    /\ onetimecosts = <<>>
    /\ archived_onetimecosts = <<>>
    /\ tallies = <<>>
    /\ FreshSession
    /\ ret = NoCall

NextShapes ==
    \/ ComputeMonthlyFee
    \/ Return

SpecShapes == InitShapes /\ [][NextShapes]_vars

---------------------------------------------------------------------------
(* Tables of fixed costs in which rows are missing *)

\* the fixed costs of the keys
CostsOf(keys) == [key \in keys |-> FixtureCosts[key]]

IncompleteCosts ==
    { FixtureCosts,
      CostsOf({BasicFeeAdultsKey, BasicFeeTrainersKey}),
      CostsOf({BasicFeeYouthsKey, BasicFeeTrainersKey}),
      CostsOf({BasicFeeAdultsKey, BasicFeeYouthsKey}),
      CostsOf({}) }

InitCosts ==
    /\ \E birthday \in {ChildBirthday, AdultBirthday},
          exit_date \in {NoDate, Day(2)},
          honorary \in BOOLEAN :
          members = [i \in Ids |->
                        IF i = Focus
                        THEN MemberRow(birthday, EarlyDate, exit_date, honorary, EarlyDate)
                        ELSE PlainChild]
    /\ sessions = FixtureSessions
    /\ participations = <<>>
    /\ trainers \in {{}, {<<Focus, 1>>}}
    /\ relations \in {<<>>, RelateAll(<<>>, 1, Ascending(Ids \ {1}))}
    /\ fixedcosts \in IncompleteCosts
    /\ feeoverrides \in {<<>>, Focus :> Decimal(3, 0)}
    /\ onetimecosts = << OneTimeFee(1, 1, "fee", Decimal(10, 0)) >>
    /\ archived_onetimecosts = <<>>
    /\ tallies = <<>>
    /\ FreshSession
    /\ ret = NoCall

NextCosts ==
    \/ ComputeMonthlyFee
    \/ ComputeTotalFee
    \/ CreateTally
    \/ Return

SpecCosts == InitCosts /\ [][NextCosts]_vars

---------------------------------------------------------------------------
(* Families that are cliques, and the member's form saved unchanged *)

RECURSIVE CliqueTable(_, _)
\* the rows of make_relation(first, k) for the first member of every family
\* up to family number n and each other member k of that family
CliqueTable(family, n) ==
    IF n = 0 THEN <<>>
    ELSE LET block == Ascending({m \in DOMAIN family : family[m] = n})
         IN IF block = <<>> THEN CliqueTable(family, n - 1)
            ELSE RelateAll(CliqueTable(family, n - 1), Head(block), Tail(block))

InitForm ==
    /\ members = [i \in 1..NumRelated |-> PlainChild]
    /\ sessions = FixtureSessions
    /\ participations = <<>>
    /\ trainers = {}
    /\ relations \in {CliqueTable(family, NumRelated) :
                          family \in [1..NumRelated -> 1..NumRelated]}
    /\ fixedcosts = FixtureCosts
    /\ feeoverrides = <<>>
    /\ onetimecosts = <<>>
    /\ archived_onetimecosts = <<>>
    /\ tallies = <<>>
    /\ FreshSession
    /\ ret = NoCall

NextForm ==
    \/ SaveMember
    \/ Return

SpecForm == InitForm /\ [][NextForm]_vars

---------------------------------------------------------------------------
(* Tallies and the clearing of outdated entries *)

InitMaintenance ==
    /\ members \in TallyMembers
    /\ sessions = FixtureSessions
    /\ participations \in { <<>>, << Participation(2, 1, EarlyDate, Day(1)) >>,
                             << Participation(1, 1, EarlyDate, NoDate) >> }
    /\ trainers = {}
    /\ relations = <<>>
    /\ fixedcosts = FixtureCosts
    /\ feeoverrides = <<>>
    /\ onetimecosts \in OutstandingLists
    /\ archived_onetimecosts = <<>>
    /\ tallies = <<>>
    /\ FreshSession
    /\ ret = NoCall

NextMaintenance ==
    \/ CreateTally
    \/ ClearOutdatedEntries
    \/ Commit
    \/ Return

SpecMaintenance == InitMaintenance /\ [][NextMaintenance]_vars

---------------------------------------------------------------------------
(* The table members, from an empty one *)

InitBank ==
    /\ members = <<>>
    /\ sessions = FixtureSessions
    /\ participations = <<>>
    /\ trainers = {}
    /\ relations = <<>>
    /\ fixedcosts = FixtureCosts
    /\ feeoverrides = <<>>
    /\ onetimecosts = <<>>
    /\ archived_onetimecosts = <<>>
    /\ tallies = <<>>
    /\ FreshSession
    /\ ret = NoCall

NextBank ==
    \/ AddMember
    \/ UpdateMember
    \/ Return

SpecBank == InitBank /\ [][NextBank]_vars

---------------------------------------------------------------------------
(* Functions of dates, which read nothing of the database *)

InitDates ==
    /\ members = [i \in Ids |-> PlainChild]
    /\ sessions = FixtureSessions
    /\ participations = <<>>
    /\ trainers = {}
    /\ relations = <<>>
    /\ fixedcosts = FixtureCosts
    /\ feeoverrides = <<>>
    /\ onetimecosts = <<>>
    /\ archived_onetimecosts = <<>>
    /\ tallies = <<>>
    /\ FreshSession
    /\ ret = NoCall

NextYears ==
    \/ NominalYearDiff
    \/ Return

SpecYears == InitDates /\ [][NextYears]_vars

---------------------------------------------------------------------------
(* The tally form *)

NextCollectionDate ==
    \/ DetermineTallyCollectionDate
    \/ Return

SpecCollectionDate == InitDates /\ [][NextCollectionDate]_vars

---------------------------------------------------------------------------
(* One household: relatives who are or are not members at the date, one of whom
   may have an override *)

HouseholdIds == 1..HouseholdSize

\* <<birthday, entry date, exit date, takes part in session 1>>: a child without
\* and with a session, an adult, a child that leaves on Day(2) and an adult
\* that enters on Day(2)
HouseholdKinds ==
    { <<ChildBirthday, EarlyDate, NoDate, FALSE>>, <<ChildBirthday, EarlyDate, NoDate, TRUE>>,
      <<AdultBirthday, EarlyDate, NoDate, FALSE>>,
      <<ChildBirthday, EarlyDate, Day(2), FALSE>>,
      <<AdultBirthday, Day(2), NoDate, FALSE>> }

InitHousehold ==
    /\ \E kind \in [HouseholdIds -> HouseholdKinds] :
          /\ members = [i \in HouseholdIds |->
                           MemberRow(kind[i][1], kind[i][2], kind[i][3], FALSE, EarlyDate)]
          /\ participations =
                LET all == [i \in HouseholdIds |-> Participation(i, 1, EarlyDate, NoDate)]
                IN SelectSeq(all, LAMBDA p : kind[p.member_id][4])
    /\ sessions = FixtureSessions
    /\ trainers = {}
    /\ relations = RelateAll(<<>>, 1, Ascending(HouseholdIds \ {1}))
    /\ fixedcosts = FixtureCosts
    /\ feeoverrides \in {<<>>, 1 :> Decimal(0, 0)}
    /\ onetimecosts = <<>>
    /\ archived_onetimecosts = <<>>
    /\ tallies = <<>>
    /\ FreshSession
    /\ ret = NoCall

NextHousehold ==
    \/ ComputeDiscount
    \/ Return

SpecHousehold == InitHousehold /\ [][NextHousehold]_vars

---------------------------------------------------------------------------
(* The relation table, from an empty one *)

InitRelations ==
    /\ members = [i \in 1..NumRelated |-> PlainChild]
    /\ sessions = FixtureSessions
    /\ participations = <<>>
    /\ trainers = {}
    /\ relations = <<>>
    /\ fixedcosts = FixtureCosts
    /\ feeoverrides = <<>>
    /\ onetimecosts = <<>>
    /\ archived_onetimecosts = <<>>
    /\ tallies = <<>>
    /\ FreshSession
    /\ ret = NoCall

NextRelations ==
    \/ MakeRelation
    \/ DropRelation
    \/ ClearRelations
    \/ SetRelatives
    \/ Return

SpecRelations == InitRelations /\ [][NextRelations]_vars

---------------------------------------------------------------------------
(* Tallies over siblings whose fees have half cents *)

\* a youth fee of 4.25, of which a sibling pays 2.125
HalfCentCosts ==
    (BasicFeeAdultsKey :> Decimal(5, 0)) @@ (BasicFeeYouthsKey :> Decimal(4, 25))
    @@ (BasicFeeTrainersKey :> Decimal(1, 0))

\* a second session of 20.50, of which 75% are 15.375
HalfCentSessions ==
    [s \in SessionIds |-> IF s = 1 THEN Decimal(16, 0) ELSE Decimal(20, 50)]

InitRounding ==
    /\ members = [i \in Ids |-> PlainChild]
    /\ sessions \in {FixtureSessions, HalfCentSessions}
    /\ participations \in { <<>>,
                             << Participation(1, 1, EarlyDate, NoDate),
                                Participation(1, 2, EarlyDate, NoDate) >> }
    /\ trainers = {}
    /\ relations \in {<<>>, RelateAll(<<>>, 1, Ascending(Ids \ {1}))}
    /\ fixedcosts \in {FixtureCosts, HalfCentCosts}
    /\ feeoverrides = <<>>
    /\ onetimecosts \in OutstandingLists
    /\ archived_onetimecosts = <<>>
    /\ tallies = <<>>
    /\ FreshSession
    /\ ret = NoCall

NextRounding ==
    \/ CreateTally
    \/ Return

SpecRounding == InitRounding /\ [][NextRounding]_vars

---------------------------------------------------------------------------
(* The participations of one member: any sessions, in any order, with any window *)

\* always; until Day(2), which excludes Day(2); from Day(3) on, which includes it
Windows == { <<EarlyDate, NoDate>>, <<EarlyDate, Day(2)>>, <<Day(3), NoDate>> }

ParticipationLists ==
    UNION { { [i \in 1..k |-> Participation(Focus, f[i][1], f[i][2][1], f[i][2][2])] :
                f \in { g \in [1..k -> SessionIds \X Windows] :
                           \A i, j \in 1..k : i # j => g[i][1] # g[j][1] } } :
            k \in 0..NumSessions }

\* fees with a tie at the top, and fees with a tie at the bottom
TopTieSessions ==
    [s \in SessionIds |-> IF s = 1 THEN Decimal(16, 0) ELSE Decimal(28, 0)]
BottomTieSessions ==
    [s \in SessionIds |-> IF s = NumSessions THEN Decimal(28, 0) ELSE Decimal(16, 0)]

InitSessions ==
    /\ \E birthday \in {ChildBirthday, AdultBirthday} :
          members = [i \in {1, Focus} |->
                        IF i = Focus
                        THEN MemberRow(birthday, EarlyDate, NoDate, FALSE, EarlyDate)
                        ELSE PlainChild]
    /\ sessions \in {FixtureSessions, TopTieSessions, BottomTieSessions}
    /\ participations \in ParticipationLists
    /\ trainers = {}
    /\ relations = make_relation(<<>>, 1, Focus)
    /\ fixedcosts = FixtureCosts
    /\ feeoverrides = <<>>
    /\ onetimecosts = <<>>
    /\ archived_onetimecosts = <<>>
    /\ tallies = <<>>
    /\ FreshSession
    /\ ret = NoCall

NextSessions ==
    \/ ComputeMonthlyFee
    \/ Return

SpecSessions == InitSessions /\ [][NextSessions]_vars

---------------------------------------------------------------------------
(* One family: every member is related to every other *)

FamilyIds == 1..FamilySize

\* <<birthday, takes part in session 1, exit date>>: a child or an adult, without or
\* with a session, and a child that leaves on Day(2)
FamilyKinds ==
    { <<ChildBirthday, FALSE, NoDate>>, <<ChildBirthday, TRUE, NoDate>>,
      <<AdultBirthday, FALSE, NoDate>>, <<AdultBirthday, TRUE, NoDate>>,
      <<ChildBirthday, FALSE, Day(2)>> }

\* a session of 1.00: a child with it pays what an adult without it pays
FamilySessions == [s \in SessionIds |-> Decimal(1, 0)]

InitFamily ==
    /\ \E kind \in [FamilyIds -> FamilyKinds] :
          /\ members = [i \in FamilyIds |->
                           MemberRow(kind[i][1], EarlyDate, kind[i][3], FALSE, EarlyDate)]
          /\ participations =
                LET all == [i \in FamilyIds |-> Participation(i, 1, EarlyDate, NoDate)]
                IN SelectSeq(all, LAMBDA p : kind[p.member_id][2])
    /\ sessions = FamilySessions
    /\ trainers = {}
    /\ relations = RelateAll(<<>>, 1, Ascending(FamilyIds \ {1}))
    /\ fixedcosts = FixtureCosts
    /\ feeoverrides = <<>>
    /\ onetimecosts = <<>>
    /\ archived_onetimecosts = <<>>
    /\ tallies = <<>>
    /\ FreshSession
    /\ ret = NoCall

NextFamily ==
    \/ ComputeDiscount
    \/ Return

SpecFamily == InitFamily /\ [][NextFamily]_vars

---------------------------------------------------------------------------
(* The monthly fees of one family, one of whose members may have an override *)

\* the members of a family who stay
StayingKinds == {kind \in FamilyKinds : kind[3] = NoDate}

InitFamilyFees ==
    /\ \E kind \in [FamilyIds -> StayingKinds] :
          /\ members = [i \in FamilyIds |->
                           MemberRow(kind[i][1], EarlyDate, kind[i][3], FALSE, EarlyDate)]
          /\ participations =
                LET all == [i \in FamilyIds |-> Participation(i, 1, EarlyDate, NoDate)]
                IN SelectSeq(all, LAMBDA p : kind[p.member_id][2])
    /\ sessions = FamilySessions
    /\ trainers = {}
    /\ relations = RelateAll(<<>>, 1, Ascending(FamilyIds \ {1}))
    /\ fixedcosts = FixtureCosts
    /\ feeoverrides \in {<<>>, 1 :> Decimal(30, 0)}
    /\ onetimecosts = <<>>
    /\ archived_onetimecosts = <<>>
    /\ tallies = <<>>
    /\ FreshSession
    /\ ret = NoCall

NextFamilyFees ==
    \/ ComputeMonthlyFee
    \/ Return

SpecFamilyFees == InitFamilyFees /\ [][NextFamilyFees]_vars

---------------------------------------------------------------------------
(* What the claims say, stated independently of the code above *)

\* not a member at D: D is before the entry date, or at or after the exit date
NotAMember(m, D) ==
    \/ DateLT(D, members[m].entry_date)
    \/ members[m].exit_date # NoDate /\ DateLE(members[m].exit_date, D)

\* the 18th birthday is at or before D
HasComeOfAge(m, D) ==
    LET b == members[m].birthday IN DateLE(<<b[1] + 18, b[2], b[3]>>, D)

Trains(m) == {s \in SessionIds : <<m, s>> \in trainers} # {}

ClaimedBaseFee(m, D) ==
    IF members[m].is_honorary_member THEN 0
    ELSE IF Trains(m) THEN fixedcosts[BasicFeeTrainersKey]
    ELSE IF HasComeOfAge(m, D) THEN fixedcosts[BasicFeeAdultsKey]
    ELSE fixedcosts[BasicFeeYouthsKey]

\* the participation rows of m whose window holds D
ActiveRows(m, D) ==
    {i \in DOMAIN participations :
        /\ participations[i].member_id = m
        /\ DateLE(participations[i].since, D)
        /\ (participations[i].until = NoDate \/ DateLT(D, participations[i].until))}

RowFee(i) == sessions[participations[i].session_id]

\* the largest fee among the rows R
MaxFee(R) == IF R = {} THEN 0 ELSE RowFee(CHOOSE i \in R : \A j \in R : RowFee(j) <= RowFee(i))

\* the largest fee of the rows R in full and 75% of the second largest
TopTwo(R) ==
    LET top == CHOOSE i \in R : \A j \in R : RowFee(j) <= RowFee(i)
    IN IF R = {} THEN 0
       ELSE RowFee(top) + (3 * MaxFee(R \ {top})) \div 4

ClaimedTrainingFee(m, D) == TopTwo(ActiveRows(m, D))

\* row r is ranked third or lower among the rows R
ThirdOrLower(r, R) ==
    \E a, b \in R \ {r} : a # b /\ RowFee(a) >= RowFee(r) /\ RowFee(b) >= RowFee(r)

\* the fee of x before any discount
ClaimedUndiscounted(x, D) ==
    IF NotAMember(x, D) THEN 0
    ELSE IF x \in DOMAIN feeoverrides THEN feeoverrides[x]
    ELSE ClaimedBaseFee(x, D) + ClaimedTrainingFee(x, D)

\* m and the relatives of m that are members at D
Family(m, D) ==
    {m} \cup {x \in DOMAIN members : x # m /\ are_related(relations, m, x) /\ ~NotAMember(x, D)}

ChildrenOf(F, D) == {x \in F : ~HasComeOfAge(x, D)}
AdultsOf(F, D) == {x \in F : HasComeOfAge(x, D)}

\* Sibling discount: the child with the highest fee, and the lowest id among the
\* children tied there, pays in full; every other child pays half; adults pay in full.
ClaimedSiblingFactor(m, D, fee) ==
    LET C == ChildrenOf(Family(m, D), D)
        highest == {c \in C : \A d \in C : fee[d] <= fee[c]}
        payer == CHOOSE c \in highest : \A d \in highest : c <= d
    IN IF m \in C /\ m # payer THEN Decimal(0, 50) ELSE Decimal(1, 0)

RECURSIVE SumOfFees(_)
SumOfFees(S) ==
    IF S = {} THEN 0
    ELSE LET i == CHOOSE i \in S : TRUE IN onetimecosts[i].amount + SumOfFees(S \ {i})

OutstandingOf(m) == {i \in DOMAIN onetimecosts : onetimecosts[i].member_id = m}

IsMonthly == ret.op = "compute_monthly_fee"
IsTotal == ret.op = "compute_total_fee"

---------------------------------------------------------------------------
(* Claims on the monthly and the total fee of one member (Spec) *)

\* C1: compute_monthly_fee returns 0 whenever the date is before the entry date or
\* at/after the exit date, whatever the override, honorary flag, trainer status,
\* participations and relatives are.
C1_ZeroOutsideMembership ==
    IsMonthly /\ NotAMember(ret.member, ret.target_date) => ret.value = 0

C1_Witness ==
    /\ IsMonthly /\ NotAMember(ret.member, ret.target_date) /\ ret.value = 0
    /\ ret.member \in DOMAIN feeoverrides /\ feeoverrides[ret.member] > 0
    /\ Trains(ret.member) /\ ActiveRows(ret.member, ret.target_date) # {}
    /\ relations # <<>>

\* C2: for an active member with a FeeOverride of amount A, compute_monthly_fee
\* returns exactly A for both values of apply_discounts.
C2_OverrideVerbatim ==
    IsMonthly /\ ~NotAMember(ret.member, ret.target_date)
              /\ ret.member \in DOMAIN feeoverrides
        => ret.value = feeoverrides[ret.member]

C2_Witness ==
    /\ IsMonthly /\ ~NotAMember(ret.member, ret.target_date)
    /\ ret.member \in DOMAIN feeoverrides /\ ret.value = Decimal(3, 0)
    /\ ret.apply_discounts /\ relations # <<>>
    /\ ~HasComeOfAge(ret.member, ret.target_date)
    /\ ActiveRows(ret.member, ret.target_date) # {}

\* C3: for an active member without override, the base fee is 0 for an honorary
\* member, else the trainer base fee for a trainer of any age, else the youth base
\* fee below 18 and the adult base fee from 18 on; the session fees are added in
\* full, also for an honorary member.
C3_BaseFee ==
    IsMonthly /\ ~NotAMember(ret.member, ret.target_date)
              /\ ret.member \notin DOMAIN feeoverrides
              /\ ~ret.apply_discounts
        => ret.value = ClaimedBaseFee(ret.member, ret.target_date)
                       + ClaimedTrainingFee(ret.member, ret.target_date)

C3_Witness ==
    /\ IsMonthly /\ ~NotAMember(ret.member, ret.target_date)
    /\ ret.member \notin DOMAIN feeoverrides /\ ~ret.apply_discounts
    /\ members[ret.member].is_honorary_member
    /\ Trains(ret.member)
    /\ members[ret.member].birthday = ComingOfAgeBirthday /\ ret.target_date = Day(2)
    /\ ret.value = Decimal(28, 0) + Decimal(15, 0)

\* C8: compute_total_fee is the monthly fee plus the sum of the member's outstanding
\* one-time fees, which are added unchanged also when the monthly fee is 0 because
\* the member has exited, is honorary or has an override.
C8_TotalFee ==
    IsTotal => ret.value = compute_monthly_fee(ret.member, TRUE, ret.target_date)
                           + SumOfFees(OutstandingOf(ret.member))

C8_Witness ==
    /\ IsTotal /\ NotAMember(ret.member, ret.target_date)
    /\ Cardinality(OutstandingOf(ret.member)) = 2
    /\ ret.value = Decimal(30, 0)

---------------------------------------------------------------------------
(* Claims on the session fees (SpecSessions) *)

HasPlainFee(m, D) == ~NotAMember(m, D) /\ m \notin DOMAIN feeoverrides

\* C4: the session part is the largest fee among the sessions active at the date
\* plus 75% of the second largest; a session ranked third or lower adds nothing
\* (the result is that of the member without it), whatever the order of the rows.
C4_TopTwoSessions ==
    IsMonthly /\ HasPlainFee(ret.member, ret.target_date) /\ ~ret.apply_discounts
        => LET R == ActiveRows(ret.member, ret.target_date)
               base == base_fee(ret.member, ret.target_date)
           IN /\ ret.value = base + TopTwo(R)
              /\ \A r \in R : ThirdOrLower(r, R) => ret.value = base + TopTwo(R \ {r})

\* the test's adult with [long, short, medium]: 5 + 28 + 15
C4_Witness ==
    /\ IsMonthly /\ ret.member = Focus /\ ~ret.apply_discounts
    /\ HasComeOfAge(Focus, ret.target_date)
    /\ sessions = FixtureSessions
    /\ Len(participations) = 3
    /\ participations[1].session_id = 3
    /\ participations[2].session_id = 1
    /\ participations[3].session_id = 2
    /\ Cardinality(ActiveRows(Focus, ret.target_date)) = 3
    /\ ret.value = Decimal(5, 0) + Decimal(28, 0) + Decimal(15, 0)

\* C5: a session's fee counts iff since <= D and (until is null or until > D): the
\* member's own fee is made of the rows whose window holds D only, and so is the fee
\* that is used for the member when the sibling discount of a relative is computed.
C5_ParticipationWindow ==
    IsMonthly /\ HasPlainFee(ret.member, ret.target_date)
        => LET m == ret.member
               D == ret.target_date
               F == Family(m, D)
           IN /\ ~ret.apply_discounts => ret.value = ClaimedUndiscounted(m, D)
              /\ ret.apply_discounts /\ Cardinality(ChildrenOf(F, D)) >= 2
                                     /\ Cardinality(AdultsOf(F, D)) < 2
                    => ret.value = DecMul(ClaimedUndiscounted(m, D),
                                          ClaimedSiblingFactor(m, D,
                                              [x \in DOMAIN members |->
                                                  ClaimedUndiscounted(x, D)]))

\* member 1 pays in full on the day the only session of its sibling has ended
C5_Witness ==
    /\ IsMonthly /\ ret.member = 1 /\ ret.apply_discounts
    /\ ~HasComeOfAge(Focus, ret.target_date)
    /\ Len(participations) = 2
    /\ participations[1].until = ret.target_date
    /\ DateLT(ret.target_date, participations[2].since)
    /\ ret.value = Decimal(4, 0)

---------------------------------------------------------------------------
(* Claims on the discount within a family (SpecFamily) *)

IsDiscount == ret.op = "compute_discount"

\* every two members of F are related
IsClique(F) == \A x, y \in F : x # y => are_related(relations, x, y)

NoOverrides(F) == \A x \in F : x \notin DOMAIN feeoverrides

\* the undiscounted fee of every member
Undiscounted(D) ==
    List([x \in 1..Cardinality(DOMAIN members) |-> compute_monthly_fee(x, FALSE, D)])

\* C6: with at least 2 children and fewer than 2 adults in the family, exactly one
\* child has factor 1: the one with the highest undiscounted fee and, among the
\* children tied there, the lowest id; every other child has 0.5, every adult 1.
C6_SiblingDiscount ==
    IsDiscount /\ ~NotAMember(ret.member, ret.target_date)
        => LET m == ret.member
               D == ret.target_date
               F == Family(m, D)
           IN IsClique(F) /\ NoOverrides(F)
                 /\ Cardinality(ChildrenOf(F, D)) >= 2 /\ Cardinality(AdultsOf(F, D)) < 2
              => LET fee == Undiscounted(D)
                 IN ret.value = ClaimedSiblingFactor(m, D, fee)

\* three children tied at the highest fee and one adult: the child with the lowest
\* id of the three is asked and pays in full
C6_Witness ==
    /\ IsDiscount /\ ret.value = Decimal(1, 0)
    /\ LET D == ret.target_date
           C == ChildrenOf(Family(ret.member, D), D)
           fee == Undiscounted(D)
           tied == {c \in C : \A d \in C : fee[d] <= fee[c]}
       IN /\ ret.member \in C /\ Cardinality(C) >= 4
          /\ Cardinality(AdultsOf(Family(ret.member, D), D)) = 1
          /\ Cardinality(tied) = 3 /\ ret.member \in tied
          /\ \E c \in C : c < ret.member

\* the pools the claim allows: all children and two adults that no other adult
\* out-pays (fee[x] is the undiscounted fee of x)
Pools(F, D, fee) ==
    LET A == AdultsOf(F, D)
    IN { ChildrenOf(F, D) \cup T :
           T \in { T \in SUBSET A : /\ Cardinality(T) = 2
                                   /\ \A t \in T, a \in A \ T : fee[a] <= fee[t] } }

\* the rank of m in P: by fee descending, equal fees by member id descending
RankIn(m, P, fee) ==
    1 + Cardinality({x \in P : fee[x] > fee[m] \/ (fee[x] = fee[m] /\ x > m)})

ClaimedFamilyFactor(m, P, D, fee) ==
    LET rank == RankIn(m, P, fee)
    IN IF m \notin P THEN Decimal(1, 0)
       ELSE IF rank <= 2 THEN Decimal(1, 0)
       ELSE IF rank <= 4 THEN Decimal(0, 50)
       ELSE IF HasComeOfAge(m, D) THEN Decimal(1, 0)
       ELSE Decimal(0, 0)

\* C7: with at least 2 adults and 2 children the pool is all children plus the two
\* adults with the highest undiscounted fees, ranked by fee descending and equal fees
\* by id descending; the factor is 1 at ranks 1-2, 0.5 at ranks 3-4, 0 for a child
\* at rank 5 or lower, 1 for an adult outside the pool or at rank 5 or lower.
C7_FamilyDiscount ==
    IsDiscount /\ ~NotAMember(ret.member, ret.target_date)
        => LET m == ret.member
               D == ret.target_date
               F == Family(m, D)
           IN Cardinality(AdultsOf(F, D)) >= 2 /\ Cardinality(ChildrenOf(F, D)) >= 2
              => LET fee == Undiscounted(D)
                 IN \E P \in Pools(F, D, fee) : ret.value = ClaimedFamilyFactor(m, P, D, fee)

\* three children and two adults: the child ranked fifth is free
C7_Witness ==
    /\ IsDiscount /\ ret.value = Decimal(0, 0)
    /\ LET D == ret.target_date
           F == Family(ret.member, D)
       IN /\ Cardinality(AdultsOf(F, D)) = 2 /\ Cardinality(ChildrenOf(F, D)) = 3
          /\ \E P \in Pools(F, D, Undiscounted(D)) :
                RankIn(ret.member, P, Undiscounted(D)) = 5

---------------------------------------------------------------------------
(* The tally *)

IsCreateTally == ret.op = "create_tally"

\* the rows of a table of fees that are a member's
FeesOf(rows, m) == SelectSeq(rows, LAMBDA f : f.member_id = m)

AssetsOf(assets, m) == {i \in DOMAIN assets : assets[i].debitor = m}

\* the bag of (member, reason, amount) over rows of fees
RECURSIVE FeeBag(_)
FeeBag(rows) ==
    IF rows = <<>> THEN EmptyBag
    ELSE SetToBag({<<Head(rows).member_id, Head(rows).reason, Head(rows).amount>>})
         (+) FeeBag(Tail(rows))

\* C9: a monthly tally for collection date D has exactly one asset for every
\* member with a mandate and compute_total_fee(member, D) > 0, of that amount,
\* and none for any other member; a member without mandate or with a total of
\* exactly 0 gets no asset and keeps its one-time fees: none of them is
\* deleted or archived.
C9_OneAssetPerDebtor ==
    [][(ret.op = "none" /\ ret'.op = "create_tally") =>
          \A m \in DOMAIN members :
             LET fee == compute_total_fee(m, ret'.target_date)
                 mine == AssetsOf(ret'.assets, m)
             IN IF members[m].sepa_mandate_date # NoDate /\ fee > 0
                THEN Cardinality(mine) = 1 /\ \A i \in mine : ret'.assets[i].amount = fee
                ELSE /\ mine = {}
                     /\ FeesOf(onetimecosts', m) = FeesOf(onetimecosts, m)
                     /\ FeesOf(archived_onetimecosts', m) = FeesOf(archived_onetimecosts, m)
      ]_vars

\* a tally with an asset, which left out a member with a mandate and left the
\* outstanding fee of a member without mandate where it was
C9_Witness ==
    /\ IsCreateTally /\ ret.assets # <<>>
    /\ \E m \in DOMAIN members :
          /\ members[m].sepa_mandate_date # NoDate
          /\ AssetsOf(ret.assets, m) = {}
    /\ \E m \in DOMAIN members :
          /\ members[m].sepa_mandate_date = NoDate
          /\ AssetsOf(ret.assets, m) = {}
          /\ FeesOf(onetimecosts, m) # <<>>

\* C10: after a successful create_tally every member that received an asset has
\* no outstanding OneTimeFee left, each of its previously outstanding fees has
\* exactly one ArchivedOneTimeFee of the same member, reason and amount, added
\* by the call, and the bag of (member, reason, amount) over outstanding plus
\* archived fees is the same before and after the call.
C10_FeesMoveToArchive ==
    [][(ret.op = "none" /\ ret'.op = "create_tally" /\ ~ret'.raised) =>
          LET added == SubSeq(archived_onetimecosts', Len(archived_onetimecosts) + 1,
                              Len(archived_onetimecosts'))
          IN /\ \A i \in DOMAIN ret'.assets :
                   LET m == ret'.assets[i].debitor
                   IN /\ FeesOf(onetimecosts', m) = <<>>
                      /\ FeeBag(FeesOf(added, m)) = FeeBag(FeesOf(onetimecosts, m))
             /\ FeeBag(onetimecosts') (+) FeeBag(archived_onetimecosts')
                   = FeeBag(onetimecosts) (+) FeeBag(archived_onetimecosts)
      ]_vars

\* the sum of the instructed amounts as they are written, in cents
RECURSIVE SumInstructed(_)
SumInstructed(transactions) ==
    IF transactions = <<>> THEN 0
    ELSE Head(transactions).instd_amt + SumInstructed(Tail(transactions))

\* C11: for every tally created, the control sum of the group header and of the
\* payment-instruction block, and Tally.total_amount, equal the exact sum of
\* the amounts of the included assets, and so equal the sum of the instructed
\* amounts as written (each with 2 decimals), also when amounts have a third
\* decimal digit.
C11_ControlSum ==
    (IsCreateTally /\ ~ret.raised) =>
        LET tally == tallies[Len(tallies)]
            document == tally.contents
            exact == SumAmounts(ret.assets)
        IN /\ Decimal(0, document.grp_hdr.ctrl_sum) = exact
           /\ Decimal(0, document.pmt_inf.ctrl_sum) = exact
           /\ tally.total_amount = exact
           /\ document.grp_hdr.ctrl_sum = SumInstructed(document.pmt_inf.drct_dbt_tx_inf)

\* C12: over any sequence of create_tally calls on one session, with or without
\* a commit in between, each OneTimeFee is archived at most once (a call adds
\* one archived row for every outstanding row it removes, and no other) and is
\* billed in at most one tally: the asset of a member is its monthly fee plus
\* the fees that are still outstanding when the call starts, so that a member
\* billed before is billed the monthly fee only.
C12_ArchivedAndBilledOnce ==
    [][(ret.op = "none" /\ ret'.op = "create_tally") =>
          /\ Len(archived_onetimecosts') - Len(archived_onetimecosts)
                = Len(onetimecosts) - Len(onetimecosts')
          /\ \A i \in DOMAIN ret'.assets :
                LET m == ret'.assets[i].debitor
                IN ret'.assets[i].amount
                     = compute_monthly_fee(m, TRUE, ret'.target_date)
                       + SumAmounts(FeesOf(onetimecosts, m))
      ]_vars

\* C13: every successful create_tally, also one for a collection date used
\* before and one that starts in the clock second of an earlier one, adds one
\* Tally row and leaves the existing rows as they are, and writes a file under
\* a name (message id) that no earlier file has, leaving the earlier files as
\* they are.
C13_DistinctRowsAndFiles ==
    [][(ret.op = "none" /\ ret'.op = "create_tally" /\ ~ret'.raised) =>
          /\ Len(tallies') = Len(tallies) + 1
          /\ SubSeq(tallies', 1, Len(tallies)) = tallies
          /\ tallies'[Len(tallies')].contents.grp_hdr.msg_id \notin DOMAIN output_dir
          /\ DOMAIN output_dir' = DOMAIN output_dir
                                    \cup {tallies'[Len(tallies')].contents.grp_hdr.msg_id}
          /\ \A name \in DOMAIN output_dir : output_dir'[name] = output_dir[name]
      ]_vars

\* C14: when the output directory is missing or cannot be written, create_tally
\* fails, and when the error is raised no OneTimeFee has been deleted or
\* archived and no Tally row has been added in the session.
C14_FailureBeforeMutation ==
    [][(ret.op = "none" /\ ret'.op = "create_tally" /\ ~output_dir_exists) =>
          /\ ret'.raised
          /\ onetimecosts' = onetimecosts
          /\ archived_onetimecosts' = archived_onetimecosts
          /\ session_deleted' = session_deleted
          /\ tallies' = tallies
      ]_vars

\* C27: no outstanding OneTimeFee is ever lost without being billed: over any
\* sequence of create_tally and clear_outdated_entries calls, a fee that is
\* outstanding before a call is outstanding after it or has an
\* ArchivedOneTimeFee copy made by the call (for every member, the archive
\* grows by as many rows as the member's outstanding fees shrink); in
\* particular clear_outdated_entries does not remove the outstanding fees of
\* a member whose exit_date lies in the past.
C27_NoFeeLost ==
    [][\A m \in DOMAIN members :
          LET removed == Len(FeesOf(onetimecosts, m)) - Len(FeesOf(onetimecosts', m))
          IN removed > 0 =>
                Len(FeesOf(archived_onetimecosts', m))
                   >= Len(FeesOf(archived_onetimecosts, m)) + removed
      ]_vars

---------------------------------------------------------------------------
(* The relation table *)

IsRelationCall(op) == ret.op = "none" /\ ret'.op = op

\* related to a relative's relative means related
TransitivelyClosed(rows) ==
    \A x \in DOMAIN members, y \in DOMAIN members, z \in DOMAIN members :
        (x # z /\ are_related(rows, x, y) /\ are_related(rows, y, z))
            => are_related(rows, x, z)

\* C15: starting from a relation graph that is a disjoint union of cliques,
\* every make_relation(a, b) leaves it a disjoint union of cliques: whenever x
\* is related to y and y to z (x # z), x is related to z, also when a and b both
\* had relatives before the call.
C15_MakeRelationKeepsCliques ==
    [][(IsRelationCall("make_relation") /\ TransitivelyClosed(relations))
          => TransitivelyClosed(relations')]_vars

RECURSIVE Connected(_, _)
\* the members joined to one of the members of S by a path of rows
Connected(rows, S) ==
    LET step == S \cup {y \in DOMAIN members : \E x \in S : are_related(rows, x, y)}
    IN IF step = S THEN S ELSE Connected(rows, step)

\* C16: in every state reachable by make_relation, drop_relation,
\* clear_relations and set_relatives, get_relatives(member) returns exactly the
\* members transitively connected to member through Relation edges, each
\* once, and never member itself.
C16_RelativesAreConnected ==
    \A member \in DOMAIN members :
        LET relatives == get_relatives(relations, member)
        IN /\ Range(relatives) = Connected(relations, {member}) \ {member}
           /\ Cardinality(Range(relatives)) = Len(relatives)

\* C17: in every reachable state of the relation table, after
\* drop_relation(a, b) are_related(a, b) and are_related(b, a) are false and
\* are_related is unchanged for every other pair of members; drop_relation on
\* an unrelated pair changes nothing.
C17_DropRemovesOneEdge ==
    [][IsRelationCall("drop_relation") =>
          LET a == ret'.member
              b == ret'.second
          IN /\ ~are_related(relations', a, b)
             /\ ~are_related(relations', b, a)
             /\ \A x \in DOMAIN members, y \in DOMAIN members :
                   {x, y} # {a, b}
                      => (are_related(relations', x, y) <=> are_related(relations, x, y))
             /\ ~are_related(relations, a, b) => relations' = relations
      ]_vars

\* C18: after set_relatives(member, newSet) every member of newSet is related
\* to member, every former relative of member that is not in newSet is no
\* longer related to member, and the edges among the former relatives are as
\* they were.
C18_SetRelatives ==
    [][IsRelationCall("set_relatives") =>
          LET member == ret'.member
              newSet == Range(ret'.relatives)
              former == Range(get_relatives(relations, member))
          IN /\ \A r \in newSet : are_related(relations', member, r)
             /\ \A r \in former \ newSet : ~are_related(relations', member, r)
             /\ \A x \in former, y \in former :
                   are_related(relations', x, y) <=> are_related(relations, x, y)
      ]_vars

\* C26: after any sequence of make_relation, drop_relation, clear_relations
\* and set_relatives the relation table holds at most one row per unordered
\* pair of members (never both (a, b) and (b, a), never the same pair twice)
\* and no row that relates a member to itself; make_relation(a, b) after
\* drop_relation(a, b) inside a clique of three adds no second row for a pair
\* that is still related.
C26_OneRowPerPair ==
    /\ \A i \in DOMAIN relations : relations[i][1] # relations[i][2]
    /\ \A i \in DOMAIN relations, j \in DOMAIN relations :
          i # j => {relations[i][1], relations[i][2]} # {relations[j][1], relations[j][2]}

\* the unordered pairs of members that are related
RelatedPairs(rows) ==
    {{x, y} : x \in DOMAIN members, y \in DOMAIN members} \cap
    {pair \in SUBSET DOMAIN members :
        \E x \in pair, y \in pair : x # y /\ are_related(rows, x, y)}

\* C28: saving a member without changing the relatives list changes nothing
\* of the relation graph: when the graph is a disjoint union of cliques,
\* set_relatives(member, get_relatives(member)) leaves the set of related
\* unordered pairs exactly as it was, for every member and every clique size.
C28_SaveKeepsPairs ==
    [][(IsRelationCall("save_member") /\ TransitivelyClosed(relations))
          => /\ RelatedPairs(relations') = RelatedPairs(relations)
             /\ TransitivelyClosed(relations')]_vars

\* a member of a family of all members was saved, and its rows were rewritten
C28_Witness ==
    /\ ret.op = "save_member"
    /\ Len(ret.relatives) = NumRelated - 1
    /\ \E i \in DOMAIN relations : relations[i][2] = ret.member
    /\ Cardinality(RelatedPairs(relations)) = (NumRelated * (NumRelated - 1)) \div 2

---------------------------------------------------------------------------
(* Claims on the relatives that count for the discount (SpecHousehold) *)

\* the fee of x as computed, without looking at an override
ClaimedComputedFee(x, D) ==
    IF NotAMember(x, D) THEN 0 ELSE ClaimedBaseFee(x, D) + ClaimedTrainingFee(x, D)

C20_InactiveRelativesIgnored ==
    IsDiscount =>
        LET m == ret.member
            D == ret.target_date
            F == Family(m, D)
            children == Cardinality(ChildrenOf(F, D))
            adults == Cardinality(AdultsOf(F, D))
        IN /\ F = {m} => ret.value = Decimal(1, 0)
           /\ children < 2 => ret.value = Decimal(1, 0)
           /\ children >= 2 /\ adults < 2
                => ret.value = ClaimedSiblingFactor(m, D, Undiscounted(D))

\* a child is asked on the day its sibling of a lower id has left, with no
\* other child active
C20_Witness ==
    /\ IsDiscount /\ ret.value = Decimal(1, 0)
    /\ LET m == ret.member
           D == ret.target_date
       IN /\ ChildrenOf(Family(m, D), D) = {m}
          /\ ~NotAMember(m, D)
          /\ \E s \in DOMAIN members :
                /\ s < m /\ are_related(relations, m, s)
                /\ ~HasComeOfAge(s, D) /\ members[s].exit_date = D

---------------------------------------------------------------------------
(* Claims on the fees of a whole family (SpecFamilyFees) *)

NonNegativeData ==
    /\ \A key \in DOMAIN fixedcosts : fixedcosts[key] >= 0
    /\ \A s \in DOMAIN sessions : sessions[s] >= 0
    /\ \A m \in DOMAIN feeoverrides : feeoverrides[m] >= 0

\* C21: given non-negative fixed costs, session fees and override amounts,
\* compute_monthly_fee never returns a negative value, the discount factor is
\* always one of 0, 0.5 and 1, and for every member and date the fee with
\* apply_discounts=true is at most the fee with apply_discounts=false.
C21_FeeBounds ==
    IsMonthly /\ NonNegativeData =>
        LET m == ret.member
            D == ret.target_date
        IN /\ ret.value >= 0
           /\ compute_discount(m, D) \in {Decimal(0, 0), Decimal(0, 50), Decimal(1, 0)}
           /\ ret.apply_discounts => ret.value <= compute_monthly_fee(m, FALSE, D)
           /\ ~ret.apply_discounts => compute_monthly_fee(m, TRUE, D) <= ret.value

\* a child of a family of two adults and three children pays nothing
C21_Witness ==
    /\ IsMonthly /\ NonNegativeData /\ ret.apply_discounts /\ ret.value = 0
    /\ compute_discount(ret.member, ret.target_date) = Decimal(0, 0)
    /\ compute_monthly_fee(ret.member, FALSE, ret.target_date) > 0

\* C29: the discount factors of one family agree with a single common
\* ranking: for a family with at least 2 adults and at least 2 children (the
\* relation graph a clique, all active at the date, no overrides), computing
\* compute_monthly_fee for every family member at the same date gives factor
\* 0.5 to exactly two members and factor 0 to exactly the children ranked 5th
\* or lower, also when several adults have equal undiscounted fees.
C29_CommonRanking ==
    IsMonthly =>
        LET D == ret.target_date
            F == Family(ret.member, D)
        IN (/\ F = DOMAIN members
            /\ IsClique(F) /\ NoOverrides(F)
            /\ \A x \in F : ~NotAMember(x, D)
            /\ Cardinality(AdultsOf(F, D)) >= 2 /\ Cardinality(ChildrenOf(F, D)) >= 2)
           => LET fee == Undiscounted(D)
                  factor == [x \in F |-> compute_discount(x, D)]
              IN /\ \A x \in F : compute_monthly_fee(x, TRUE, D) = DecMul(factor[x], fee[x])
                 /\ Cardinality({x \in F : factor[x] = Decimal(0, 50)}) = 2
                 /\ \E P \in Pools(F, D, fee) :
                       {x \in F : factor[x] = Decimal(0, 0)}
                          = {c \in ChildrenOf(F, D) : RankIn(c, P, fee) >= 5}

---------------------------------------------------------------------------
(* Claims on the calls among the fee functions (SpecShapes) *)

\* C22: compute_monthly_fee terminates for every relation graph, including
\* mutually related members, cliques and a member related to itself: the fees
\* of relatives are computed with apply_discounts=false, so compute_discount
\* is never entered while a relative's fee is computed and the call depth is
\* at most two levels.
C22_CallDepth ==
    IsMonthly =>
        LET m == ret.member
            D == ret.target_date
        IN /\ call_depth(m, ret.apply_discounts, D, 1) <= 2
           /\ \A x \in DOMAIN members : call_depth(x, RelativeApplyDiscounts, D, 2) = 2
           /\ ret.value = compute_monthly_fee(m, ret.apply_discounts, D)

\* a discounted fee is computed for a member of a clique who is also related to
\* itself: the fees of the relatives are one level down
C22_Witness ==
    /\ IsMonthly /\ ret.apply_discounts
    /\ are_related(relations, ret.member, ret.member)
    /\ Len(get_relatives(relations, ret.member)) = NumMembers - 1
    /\ call_depth(ret.member, TRUE, ret.target_date, 1) = 2
    /\ ret.value = Decimal(4, 0)

---------------------------------------------------------------------------
(* Claims on dates (SpecYears) *)

IsYearDiff == ret.op = "nominal_year_diff"

\* (month, day) of a is earlier than (month, day) of b
EarlierInYear(a, b) == a[2] < b[2] \/ (a[2] = b[2] /\ a[3] < b[3])

\* C23: nominal_year_diff(first, second) is second.year - first.year, minus 1
\* exactly when (second.month, second.day) is earlier than (first.month,
\* first.day); it is 0 for equal dates and -1 when second is one day before
\* first, and a member is a child (< 18) on every date before the 18th
\* birthday and an adult from that day on.
C23_NominalYearDiff ==
    IsYearDiff =>
        LET first == ret.first_date
            second == ret.target_date
        IN /\ ret.value = (second[1] - first[1])
                            - (IF EarlierInYear(second, first) THEN 1 ELSE 0)
           /\ first = second => ret.value = 0
           /\ NextDay(second) = first => ret.value = 0 - 1
           /\ ret.value < AdultAge <=> DateLT(second, <<first[1] + AdultAge, first[2], first[3]>>)

\* born on the 29th of February: still 17 on the 28th of February 18 years later
C23_Witness ==
    /\ IsYearDiff
    /\ ret.first_date = <<2004, 2, 29>> /\ ret.target_date = <<2022, 2, 28>>
    /\ ret.value = 17

---------------------------------------------------------------------------
(* Claims on missing fixed costs (SpecCosts) *)

\* the key of the member's base-fee tier
ClaimedTierKey(m, D) ==
    IF Trains(m) THEN BasicFeeTrainersKey
    ELSE IF HasComeOfAge(m, D) THEN BasicFeeAdultsKey
    ELSE BasicFeeYouthsKey

\* the base fee of m is needed, and its row is missing
NeedsMissingCost(m, D) ==
    /\ ~NotAMember(m, D) /\ m \notin DOMAIN feeoverrides
    /\ ~members[m].is_honorary_member
    /\ ClaimedTierKey(m, D) \notin DOMAIN fixedcosts

\* the fee of m is discounted, and the base fee of an active relative is
\* needed for the comparison, and its row is missing
RelativeNeedsMissingCost(m, D) ==
    /\ ~NotAMember(m, D) /\ m \notin DOMAIN feeoverrides
    /\ \E x \in Family(m, D) \ {m} : NeedsMissingCost(x, D)

HasMandate(m) == members[m].sepa_mandate_date # NoDate

\* C24: get_fixed_cost fails with an error that names the key when no row
\* with that key exists; compute_monthly_fee, compute_total_fee and
\* create_tally propagate the failure without a partial result, and the
\* failure occurs only when the missing key is the one the member's base-fee
\* tier needs (not for inactive, overridden or honorary members).
C24_AsStated ==
    /\ (IsMonthly \/ IsTotal) =>
          /\ ret.raised <=> NeedsMissingCost(ret.member, ret.target_date)
          /\ ret.raised => /\ ret.key = ClaimedTierKey(ret.member, ret.target_date)
                           /\ ret.value = 0
    /\ (IsCreateTally /\ ret.key # NoKey) =>
          /\ ret.raised /\ ret.value = 0 /\ ret.assets = <<>>
          /\ \E m \in DOMAIN members :
                /\ HasMandate(m) /\ NeedsMissingCost(m, ret.target_date)
                /\ ret.key = ClaimedTierKey(m, ret.target_date)

\* C24, amended: the failure occurs when the missing key is the one that the
\* base-fee tier of the member needs, or, when the fee is discounted, the one
\* that the tier of an active relative without override needs.
C24_MissingFixedCost ==
    /\ (IsMonthly \/ IsTotal) =>
          LET m == ret.member
              D == ret.target_date
          IN /\ ret.raised <=> \/ NeedsMissingCost(m, D)
                               \/ ret.apply_discounts /\ RelativeNeedsMissingCost(m, D)
             /\ ret.raised =>
                   /\ ret.value = 0
                   /\ ret.key \notin DOMAIN fixedcosts
                   /\ \E x \in Family(m, D) :
                         NeedsMissingCost(x, D) /\ ret.key = ClaimedTierKey(x, D)
                   /\ NeedsMissingCost(m, D) => ret.key = ClaimedTierKey(m, D)
    /\ (IsCreateTally /\ ret.key # NoKey) =>
          /\ ret.raised /\ ret.value = 0 /\ ret.assets = <<>>
          /\ ret.key \notin DOMAIN fixedcosts
          /\ \E m \in DOMAIN members :
                /\ HasMandate(m)
                /\ \E x \in Family(m, ret.target_date) :
                      /\ NeedsMissingCost(x, ret.target_date)
                      /\ ret.key = ClaimedTierKey(x, ret.target_date)

\* the fee of a child fails for the adult fee that its relative needs
C24_Witness ==
    /\ IsMonthly /\ ret.raised /\ ret.apply_discounts
    /\ ~HasComeOfAge(ret.member, ret.target_date)
    /\ ~NeedsMissingCost(ret.member, ret.target_date)
    /\ ret.key = BasicFeeAdultsKey
    /\ BasicFeeYouthsKey \in DOMAIN fixedcosts

---------------------------------------------------------------------------
(* Claims on the banking data of a member (SpecBank) *)

IsStore == ret.op \in {"add_member", "update_member"}

BankFields(row) == {row.iban, row.bic, row.account_owner}

\* no banking field and no mandate date, or all of them
AllOrNothing(row) ==
    \/ BankFields(row) = {Null} /\ row.sepa_mandate_date = NoDate
    \/ Null \notin BankFields(row) /\ row.sepa_mandate_date # NoDate

\* a mandate date has all three banking fields with it
MandateIsComplete(row) ==
    row.sepa_mandate_date # NoDate => Null \notin BankFields(row)

\* C25: in every persisted Member record the banking data is all-or-nothing:
\* if any of iban, bic or account_owner is set, all three and sepa_mandate_date
\* are set; an insert or update that would leave a partial set is rejected
\* with an integrity error and the stored record is unchanged.
C25_AsStated ==
    /\ \A m \in DOMAIN members : AllOrNothing(members[m])
    /\ IsStore => (ret.raised <=> ~AllOrNothing(ret.row))

\* C25, amended: in every persisted Member record a mandate date has iban, bic
\* and account_owner with it; an insert or update that would leave a mandate
\* date with one of them missing is rejected with an integrity error and the
\* stored records are unchanged; banking fields without a mandate date, also
\* some of them only, are accepted.
C25_MandateNeedsBankDetails ==
    /\ [](\A m \in DOMAIN members : MandateIsComplete(members[m]))
    /\ [](IsStore => (ret.raised <=> ~MandateIsComplete(ret.row)))
    /\ [][(ret.op = "none" /\ ret'.raised) => members' = members]_vars
    /\ [][(ret.op = "none" /\ ret'.op = "update_member" /\ ~ret'.raised)
             => members'[ret'.member] = ret'.row]_vars

\* setting the mandate date of a stored member that has no bic was refused
C25_Witness ==
    /\ ret.op = "update_member" /\ ret.raised
    /\ ret.row.sepa_mandate_date # NoDate /\ ret.row.bic = Null
    /\ ret.row.iban # Null /\ ret.row.account_owner # Null
    /\ members[ret.member].sepa_mandate_date = NoDate
    /\ members[ret.member].iban # Null

---------------------------------------------------------------------------
(* Claims on the collection date of the tally form (SpecCollectionDate) *)

IsCollectionDate == ret.op = "determine_tally_collection_date"

\* the day of the week by the table of month offsets: 0 is Sunday, 6 is Saturday
DayOfWeek(date) ==
    LET offsets == <<0, 3, 2, 5, 0, 3, 5, 1, 4, 6, 2, 4>>
        y == IF date[2] < 3 THEN date[1] - 1 ELSE date[1]
    IN (y + y \div 4 - y \div 100 + y \div 400 + offsets[date[2]] + date[3]) % 7

IsWorkingDay(date) == DayOfWeek(date) \in 1..5

\* current is at least two days before date, which is not before the first of
\* the selected month
MayCollectOn(date, current, selected) ==
    /\ DateLE(NextDay(NextDay(current)), date)
    /\ DateLE(selected, date)

\* C30: for every current date and every selected year and month, the
\* collection date proposed by the tally form is a Monday to Friday, is at
\* least two days after the current date, is not before the first day of the
\* selected month, and is the earliest date with these three properties (a
\* Saturday or Sunday is moved to the following Monday).
C30_CollectionDate ==
    IsCollectionDate =>
        LET current == ret.first_date
            selected == ret.target_date
        IN /\ IsWorkingDay(ret.date)
           /\ MayCollectOn(ret.date, current, selected)
           \* no earlier day will do: of the seven days before, which hold
           \* every day of the week, those that may be collected on are no
           \* working days
           /\ \A k \in 1..7 :
                 LET d == timedelta(ret.date, 0 - k)
                 IN MayCollectOn(d, current, selected) => ~IsWorkingDay(d)

\* on Thursday 13 June 2024 the form proposes Monday 17 June for June: two
\* days later is a Saturday
C30_Witness ==
    /\ IsCollectionDate
    /\ ret.first_date = <<2024, 6, 13>> /\ ret.target_date = <<2024, 6, 1>>
    /\ ret.date = <<2024, 6, 17>>
    /\ DayOfWeek(ret.date) = 1

====
